---- MODULE Spec2Model ----
(***************************************************************************)
(* The pipeline orchestration engine of video-engine-backend:              *)
(*   - the persisted project record (services/projects.py),                *)
(*   - the seven step executors of services/tasks.py,                      *)
(*   - the pools they drive (asset, anchor, video and speech tasks),       *)
(*   - the out-of-band anchor regeneration (routers/timeline.py),          *)
(*   - the reference-image critique loop (task_gen_anchor) under its       *)
(*     retry_backoff wrapper.                                              *)
(*                                                                         *)
(* One project is modelled.  Generation services and media tools may fail  *)
(* or return nothing, and so may the blob fetches and the final upload of  *)
(* the steps; the upload inside the critique loop succeeds.  The document  *)
(* store answers as its contract says, the only store event being the      *)
(* deletion of the project.                                                *)
(* Paths carry a fresh uuid in the code; an artifact is modelled by the    *)
(* name of what produced it ("prior": persisted before the invocation,     *)
(* "step": the running step, "veo"/"fallback"/"tts": the production        *)
(* tasks), its key being the key of the map that holds it.                 *)
(***************************************************************************)
EXTENDS Integers, Sequences, FiniteSets, TLC

\* ---------------------------------------------------------------- bounds
\* Longest timeline a manifest may hold.
MaxSegs == 2
\* Longest timeline the planning step produces in the pipeline specification.
PipelineSegs == 1
\* Largest asset roster of a report.
MaxAssets == 1
\* Most files uploaded to the project.
MaxFiles == 1
\* Step invocations the pipeline specification follows.
MaxInvocations == 1
\* Width of the asset/anchor executor.  config.py sets WORKER_THREADS_ASSETS
\* to 8; the model scales it so that timelines with more tasks than workers
\* exist within MaxSegs.
PoolWidth == 1

\* ------------------------------------------------------ program constants
WORKER_THREADS_ASSETS == 8
WORKER_THREADS_VEO == 4
TTS_MAX_WORKERS == 16

\* ------------------------------------------------------------ vocabulary
SegName == <<"s1", "s2", "s3", "s4">>
AssetName == <<"a1", "a2", "a3", "a4", "a5">>
FileName == <<"f1", "f2", "f3">>
SegIds == {SegName[i] : i \in 1..MaxSegs}
AssetIds == {AssetName[i] : i \in 1..MaxAssets}
Files == {FileName[i] : i \in 1..MaxFiles}

\* VeoMode
Modes == {"i2v", "fi"}

\* A timeline is an ordered list of segments with distinct ids.
Timelines ==
    UNION {[1..n -> Modes] : n \in 0..MaxSegs}

Timeline(ms) == [i \in 1..Len(ms) |-> [id |-> SegName[i], mode |-> ms[i]]]

Manifests == {[present |-> TRUE, timeline |-> Timeline(ms)] : ms \in Timelines}
PipelineManifests == {m \in Manifests : Len(m.timeline) <= PipelineSegs}
NoManifest == [present |-> FALSE]
Reports == {[present |-> TRUE, assets |-> as] : as \in SUBSET AssetIds}
NoReport == [present |-> FALSE]

EmptyMap == [k \in {} |-> "None"]
None == "None"

StepOrder == <<"ingest", "detective", "planning", "assets", "anchors", "production", "assembly">>
StepNames == {StepOrder[i] : i \in 1..Len(StepOrder)}

TimelineIds(tl) == {tl[i].id : i \in 1..Len(tl)}

\* The keys a complete anchor step leaves in anchor_map.
AnchorKeys(tl) ==
    {<<tl[i].id, "start">> : i \in 1..Len(tl)}
        \cup {<<tl[i].id, "end">> : i \in {j \in 1..Len(tl) : tl[j].mode = "fi"}}

\* A naming scheme that follows the step itself instead of the next one.
StatusOfOwnStep(s) == "waiting_" \o s

\* The status a step writes when it succeeds.
SuccessStatus(s) ==
    CASE s = "ingest" -> "waiting_detective"
      [] s = "detective" -> "waiting_planning"
      [] s = "planning" -> "waiting_assets"
      [] s = "assets" -> "waiting_anchors"
      [] s = "anchors" -> "waiting_production"
      [] s = "production" -> "waiting_assembly"
      [] s = "assembly" -> "completed"

StepIndex(s) == CHOOSE i \in 1..Len(StepOrder) : StepOrder[i] = s

\* A progress figure that is full at every step boundary.
FullAtBoundary(s) == 100

\* The progress a step writes together with its success status.
StepProgress(s) ==
    CASE s = "ingest" -> 15
      [] s = "detective" -> 25
      [] s = "planning" -> 35
      [] s = "assembly" -> 100
      [] OTHER -> 0

\* ------------------------------------------------------------- the store
\* get_project of a deleted project returns None.
NoProject == [exists |-> FALSE]

create_project(files) ==
    [exists |-> TRUE,
     status |-> "idle",
     file_paths |-> files,
     potential_assets |-> {},
     report |-> NoReport,
     manifest |-> NoManifest,
     asset_map |-> EmptyMap,
     anchor_map |-> EmptyMap,
     video_map |-> EmptyMap,
     audio_map |-> EmptyMap,
     current_step |-> None,
     progress |-> 0]

get_project(p) == p

\* A write that replaces the whole document by the named fields over a
\* blank project.
ReplaceProject(p, kwargs) ==
    IF p.exists THEN kwargs @@ create_project({}) ELSE p

\* A write that creates the document when it is missing.
UpsertProject(p, kwargs) ==
    IF p.exists THEN kwargs @@ p ELSE kwargs @@ create_project({})

\* A field-scoped merge; a no-op on a deleted project.
update_project(p, kwargs) ==
    IF p.exists THEN kwargs @@ p ELSE p

Log(msg, about) == [msg |-> msg, about |-> about]

\* The append is dropped when the project is gone.
log_project(p, entries, entry) ==
    IF p.exists THEN entries \cup {entry} ELSE entries

Get(m, k) == IF k \in DOMAIN m THEN m[k] ELSE None
Put(m, k, v) == (k :> v) @@ m
Min(a, b) == IF a < b THEN a ELSE b

VARIABLES
    proj,            \* the persisted project document
    logged,          \* entries appended to the project log since the invocation was scheduled
    pc, step,        \* the step invocation: its place and its name
    snap,            \* proj as read by the step's get_project
    err,             \* the exception on its way to the step's handler
    wrote,           \* the status values the invocation passed to update_project, in order
    trail,           \* the status values the project document has held, in order
    succeeded,       \* steps that have ended in their success status
    invocations,     \* step invocations accepted so far
    futs,            \* the futures of the running step: task -> [st, a1, a2, res]
    pending,         \* futures not yet handled by the step's loop
    done,            \* futures returned by wait() and not yet handled
    completed_count, \* completed_count of the running loop
    lmaps,           \* the step's local maps and lists
    veoReqs,         \* requests submitted to the video service by this invocation
    endStarts,       \* end-anchor tasks started: [seg, ref, by]
    rg,              \* the anchor regeneration background task
    cr,              \* one run of task_gen_anchor under retry_backoff
    rb,              \* one run of an operation wrapped by retry_backoff
    ws,              \* out-of-band writers of the project: writer -> its place and what it read
    mf,              \* the manifest as planned, critiqued, persisted and edited
    pools            \* the executors of the steps, by count: pool -> [queued, running, settled]

invVars == <<pc, step, snap, err, wrote, trail, succeeded, invocations>>
poolVars == <<futs, pending, done, completed_count, lmaps>>
histVars == <<veoReqs, endStarts>>
vars == <<proj, logged, pc, step, snap, err, wrote, trail, succeeded, invocations, futs,
          pending, done, completed_count, lmaps, veoReqs, endStarts, rg, cr, rb, ws, mf, pools>>

NoLocalMaps == [anchor_map |-> EmptyMap, v_map |-> EmptyMap, a_map |-> EmptyMap,
                final_map |-> EmptyMap, potential |-> {}, clips |-> <<>>,
                progs |-> <<>>, attempted |-> {}, temp |-> {}, submitted |-> <<>>,
                mix |-> <<>>]
RegenIdle == [pc |-> "idle"]
CritiqueIdle == [pc |-> "idle"]
RetryIdle == [pc |-> "idle"]
NoWriters == << >>
NoPlanning == [pc |-> "idle"]
NoPools == << >>

\* A status write reaches the document only while the project exists.
StatusTrail(p, tr, status) == IF p.exists THEN Append(tr, status) ELSE tr

\* ------------------------------------------------- the step state machine
\* run_step_endpoint: the owner check needs the project; the step is queued
\* as a background task.  No status is consulted.
run_step_endpoint(s) ==
    /\ pc \in {"idle", "done"}
    /\ proj.exists
    /\ invocations' = invocations + 1
    /\ pc' = "scheduled"
    /\ step' = s
    /\ snap' = NoProject
    /\ err' = None
    /\ wrote' = <<>>
    /\ logged' = {}
    /\ futs' = EmptyMap
    /\ pending' = {}
    /\ done' = {}
    /\ completed_count' = 0
    /\ lmaps' = NoLocalMaps
    /\ veoReqs' = {}
    /\ endStarts' = {}
    /\ UNCHANGED <<proj, trail, succeeded, rg, cr, rb, ws, mf, pools>>

\* A step that starts without marking the project as running.
StepBeginQuiet ==
    /\ pc = "scheduled"
    /\ snap' = get_project(proj)
    /\ logged' = log_project(proj, logged, Log("Starting", step))
    /\ pc' = "body"
    /\ UNCHANGED <<proj, wrote, trail, step, err, succeeded, invocations, poolVars, histVars, rg, cr, rb, ws, mf, pools>>

\* The first lines of every step: read the snapshot, mark running, log.
StepBegin ==
    /\ pc = "scheduled"
    /\ snap' = get_project(proj)
    /\ proj' = update_project(proj, [status |-> "running", current_step |-> step])
    /\ wrote' = Append(wrote, "running")
    /\ trail' = StatusTrail(proj, trail, "running")
    /\ logged' = log_project(proj, logged, Log("Starting", step))
    /\ pc' = "body"
    /\ UNCHANGED <<step, err, succeeded, invocations, poolVars, histVars, rg, cr, rb, ws, mf, pools>>

\* An exception leaves the try body at once.
Raise(e) ==
    /\ pc' = "raised"
    /\ err' = e
    /\ UNCHANGED <<proj, wrote, trail, succeeded>>

\* An except clause that logs and returns without persisting the failure.
StepHandlerLogOnly ==
    /\ pc = "raised"
    /\ logged' = log_project(proj, logged, Log("ERROR", step))
    /\ pc' = "done"
    /\ UNCHANGED <<proj, wrote, trail, step, snap, err, succeeded, invocations, poolVars, histVars, rg, cr, rb, ws, mf, pools>>

\* An except clause that also puts the progress back to 0.
StepHandlerResetProgress ==
    /\ pc = "raised"
    /\ logged' = log_project(proj, logged, Log("ERROR", step))
    /\ proj' = update_project(proj, [status |-> "failed", error |-> err, progress |-> 0])
    /\ wrote' = Append(wrote, "failed")
    /\ trail' = StatusTrail(proj, trail, "failed")
    /\ pc' = "done"
    /\ UNCHANGED <<step, snap, err, succeeded, invocations, poolVars, histVars, rg, cr, rb, ws, mf, pools>>

\* The except clause shared by the seven steps.
StepHandler ==
    /\ pc = "raised"
    /\ logged' = log_project(proj, logged, Log("ERROR", step))
    /\ proj' = update_project(proj, [status |-> "failed", error |-> err])
    /\ wrote' = Append(wrote, "failed")
    /\ trail' = StatusTrail(proj, trail, "failed")
    /\ pc' = "done"
    /\ UNCHANGED <<step, snap, err, succeeded, invocations, poolVars, histVars, rg, cr, rb, ws, mf, pools>>

\* A closing update that reports failure when every pooled task failed.
SucceedUnlessAllFailed(kwargs) ==
    LET s == IF DOMAIN futs # {} /\ (\A t \in DOMAIN futs : futs[t].st = "fail")
             THEN "failed" ELSE SuccessStatus(step) IN
    /\ proj' = update_project(proj, kwargs @@ [status |-> s])
    /\ wrote' = Append(wrote, s)
    /\ trail' = StatusTrail(proj, trail, s)
    /\ succeeded' = IF s = "failed" THEN succeeded ELSE succeeded \cup {step}
    /\ logged' = log_project(proj, logged, Log("complete", step))
    /\ pc' = "done"
    /\ UNCHANGED <<snap, err>>

\* The last update of a step that succeeds, and its closing log line.
Succeed(kwargs) ==
    /\ proj' = update_project(proj, kwargs @@ [status |-> SuccessStatus(step)])
    /\ wrote' = Append(wrote, SuccessStatus(step))
    /\ trail' = StatusTrail(proj, trail, SuccessStatus(step))
    /\ succeeded' = succeeded \cup {step}
    /\ logged' = log_project(proj, logged, Log("complete", step))
    /\ pc' = "done"
    /\ UNCHANGED <<snap, err>>

\* delete_project
delete_project ==
    /\ proj.exists
    /\ proj' = NoProject
    /\ UNCHANGED <<logged, invVars, poolVars, histVars, rg, cr, rb, ws, mf, pools>>

\* ------------------------------------------------------------ the pools
Pool(kind) ==
    CASE kind = "video" -> "veo"
      [] kind = "audio" -> "tts"
      [] OTHER -> "assets"

Width(pool) ==
    CASE pool = "veo" -> WORKER_THREADS_VEO
      [] pool = "tts" -> TTS_MAX_WORKERS
      [] OTHER -> PoolWidth

Running(pool) == {t \in DOMAIN futs : Pool(t[1]) = pool /\ futs[t].st = "running"}
Settled(t) == t \in DOMAIN futs /\ futs[t].st \in {"ok", "fail"}
NoHow == [exhausted |-> FALSE, synth |-> None]
Queued(a1, a2) == [st |-> "queued", a1 |-> a1, a2 |-> a2, res |-> None, how |-> NoHow]

SegOf(tl, id) == tl[CHOOSE i \in 1..Len(tl) : tl[i].id = id]

\* A worker of the task's executor takes it from the queue.
TaskStart(t) ==
    /\ t \in DOMAIN futs
    /\ futs[t].st = "queued"
    /\ Cardinality(Running(Pool(t[1]))) < Width(Pool(t[1]))
    /\ futs' = [futs EXCEPT ![t].st = "running"]
    /\ endStarts' = IF t[1] = "end"
                    THEN endStarts \cup {[seg |-> t[2], ref |-> futs[t].a1, by |-> "step"]}
                    ELSE endStarts
    /\ UNCHANGED <<proj, logged, invVars, pending, done, completed_count, lmaps, veoReqs, rg, cr, rb, ws, mf, pools>>

\* task_run_veo under retry_backoff, as the production pool sees it: the
\* outcomes of one task and the request it hands to the video service.  The
\* last frame is sent only for an fi segment whose end anchor was passed.
VeoRequest(sid, seg, anchor_path, end_anchor_path) ==
    [seg |-> sid,
     mode |-> seg.mode,
     image |-> anchor_path,
     last_frame |-> IF seg.mode = "fi" /\ end_anchor_path # None THEN end_anchor_path ELSE None]

\* What the video service does on each attempt of the loop: a video, an
\* operation without a video, or an exception (the upload of the video
\* included, which sits in the same try).
VEO_ATTEMPTS == 3
ServiceAnswers == [1..VEO_ATTEMPTS -> {"video", "none", "error"}]
Exhausted(answers) == \A i \in 1..VEO_ATTEMPTS : answers[i] # "video"

\* A video task that raises once the service attempts are used up.
VeoRunNoFallback(req, prepared, answers, synth) ==
    IF ~prepared
    THEN [st |-> "fail", res |-> None, reqs |-> {}, how |-> NoHow]
    ELSE IF ~Exhausted(answers)
    THEN [st |-> "ok", res |-> "veo", reqs |-> {req}, how |-> NoHow]
    ELSE [st |-> "fail", res |-> None, reqs |-> {req},
          how |-> [exhausted |-> TRUE, synth |-> synth]]

\* One execution of the task body.  prepared: the prompt optimizer and the
\* anchor fetches went through; synth: the looped still was rendered and
\* uploaded ("ok") or one of the two raised ("fail").
VeoRun(req, prepared, answers, synth) ==
    IF ~prepared
    THEN [st |-> "fail", res |-> None, reqs |-> {}, how |-> NoHow]
    ELSE IF ~Exhausted(answers)
    THEN [st |-> "ok", res |-> "veo", reqs |-> {req}, how |-> NoHow]
    ELSE IF synth = "ok"
    THEN [st |-> "ok", res |-> "fallback", reqs |-> {req},
          how |-> [exhausted |-> TRUE, synth |-> "ok"]]
    ELSE [st |-> "fail", res |-> None, reqs |-> {req},
          how |-> [exhausted |-> TRUE, synth |-> "fail"]]

\* The execution that decides the task: the first that returns, or the last
\* one retry_backoff allows.
task_run_veo(sid, seg, anchor_path, end_anchor_path) ==
    LET req == VeoRequest(sid, seg, anchor_path, end_anchor_path) IN
    {VeoRun(req, prepared, answers, synth) :
        prepared \in BOOLEAN, answers \in ServiceAnswers, synth \in {"ok", "fail"}}

\* task_render_audio: None when the segment has no narration.
task_render_audio ==
    { [st |-> "ok", res |-> "tts", reqs |-> {}, how |-> NoHow],
      [st |-> "ok", res |-> None, reqs |-> {}, how |-> NoHow],
      [st |-> "fail", res |-> None, reqs |-> {}, how |-> NoHow] }

\* The image tasks (analysis, asset, anchor) as their pools see them.
ImageTaskOutcomes ==
    { [st |-> "ok", res |-> "step", reqs |-> {}, how |-> NoHow],
      [st |-> "fail", res |-> None, reqs |-> {}, how |-> NoHow] }

TaskOutcomes(t) ==
    CASE t[1] = "video" ->
            task_run_veo(t[2], SegOf(snap.manifest.timeline, t[2]), futs[t].a1, futs[t].a2)
      [] t[1] = "audio" -> task_render_audio
      [] OTHER -> ImageTaskOutcomes

\* A running task returns or raises.
TaskFinish(t) ==
    /\ t \in DOMAIN futs
    /\ futs[t].st = "running"
    /\ \E o \in TaskOutcomes(t) :
          /\ futs' = [futs EXCEPT ![t].st = o.st, ![t].res = o.res, ![t].how = o.how]
          /\ veoReqs' = veoReqs \cup o.reqs
    /\ UNCHANGED <<proj, logged, invVars, pending, done, completed_count, lmaps, endStarts, rg, cr, rb, ws, mf, pools>>

\* ---------------------------------------------------------- step_ingest
IngestSubmit ==
    /\ pc = "body" /\ step = "ingest"
    /\ \/ /\ ~snap.exists
          /\ Raise("AttributeError: NoneType")
          /\ UNCHANGED <<futs, pending>>
       \/ /\ snap.exists
          /\ futs' = [t \in {<<"analyze", f>> : f \in snap.file_paths} |-> Queued(None, None)]
          /\ pending' = {<<"analyze", f>> : f \in snap.file_paths}
          /\ pc' = "loop"
          /\ UNCHANGED <<proj, err, wrote, trail, succeeded>>
    /\ UNCHANGED <<logged, step, snap, invocations, done, completed_count, lmaps, histVars, rg, cr, rb, ws, mf, pools>>

IngestLoop ==
    /\ pc = "loop" /\ step = "ingest"
    /\ \/ \E t \in pending :
            /\ Settled(t)
            /\ pending' = pending \ {t}
            /\ IF futs[t].st = "ok"
               THEN /\ lmaps' = [lmaps EXCEPT !.potential = @ \cup {t[2]}]
                    /\ logged' = logged
               ELSE /\ lmaps' = lmaps
                    /\ logged' = log_project(proj, logged, Log("Analysis warning", t[2]))
            /\ UNCHANGED <<proj, pc, snap, err, wrote, trail, succeeded>>
       \/ /\ pending = {}
          /\ Succeed([potential_assets |-> lmaps.potential, progress |-> StepProgress(step)])
          /\ UNCHANGED <<pending, lmaps>>
    /\ UNCHANGED <<step, invocations, futs, done, completed_count, histVars, rg, cr, rb, ws, mf, pools>>

\* ------------------------------------------------------- step_detective
step_detective ==
    /\ pc = "body" /\ step = "detective"
    /\ \/ /\ ~snap.exists
          /\ Raise("AttributeError: NoneType")
          /\ UNCHANGED <<logged, snap>>
       \/ /\ snap.exists
          /\ Raise("task_detective failed")
          /\ UNCHANGED <<logged, snap>>
       \/ /\ snap.exists
          /\ \E report \in Reports :
                Succeed([report |-> report, progress |-> StepProgress(step)])
    /\ UNCHANGED <<step, invocations, poolVars, histVars, rg, cr, rb, ws, mf, pools>>

\* -------------------------------------------------------- step_planning
\* The report may be None: json.dumps accepts it.
Planning(manifests) ==
    /\ pc = "body" /\ step = "planning"
    /\ \/ /\ ~snap.exists
          /\ Raise("TypeError: NoneType")
          /\ UNCHANGED <<logged, snap>>
       \/ /\ snap.exists
          /\ Raise("task_architect failed")
          /\ UNCHANGED <<logged, snap>>
       \/ /\ snap.exists
          /\ \E manifest \in manifests :
                Succeed([manifest |-> manifest, progress |-> StepProgress(step)])
    /\ UNCHANGED <<step, invocations, poolVars, histVars, rg, cr, rb, ws, mf, pools>>

step_planning == Planning(PipelineManifests)

\* ---------------------------------- step_assets and task_finalize_assets
AssetsSubmit ==
    /\ pc = "body" /\ step = "assets"
    /\ \/ /\ ~snap.exists
          /\ Raise("TypeError: NoneType")
          /\ UNCHANGED <<logged, futs, pending, lmaps>>
       \/ /\ snap.exists /\ ~snap.report.present
          /\ Raise("AttributeError: NoneType")
          /\ UNCHANGED <<logged, futs, pending, lmaps>>
       \/ /\ snap.exists /\ snap.report.present
          /\ logged' = log_project(proj, logged, Log("Asset Finalization", ""))
          /\ futs' = [t \in {<<"asset", a>> : a \in snap.report.assets} |-> Queued(None, None)]
          /\ pending' = {<<"asset", a>> : a \in snap.report.assets}
          /\ proj' = update_project(proj, [progress |-> 0])
          /\ lmaps' = [lmaps EXCEPT !.progs = <<0>>]
          /\ pc' = "loop"
          /\ UNCHANGED <<err, wrote, trail, succeeded>>
    /\ UNCHANGED <<step, snap, invocations, done, completed_count, histVars, rg, cr, rb, ws, mf, pools>>

\* A progress figure that is full from the first task on.
PoolProgressFull(count, total) == 100

\* int((completed_count / total_tasks) * 100)
PoolProgress(count, total) == (count * 100) \div total

\* A loop that stores an entry whatever the future holds.
ReturnedAlways(t) == TRUE

\* f.result() returns: the try branch of the loop is completed.
Returned(t) == futs[t].st = "ok"

AssetsLoop ==
    /\ pc = "loop" /\ step = "assets"
    /\ \/ \E t \in pending :
            LET count == completed_count + 1
                prog == PoolProgress(count, Cardinality(DOMAIN futs))
                final_map == Put(lmaps.final_map, t[2], futs[t].res)
            IN  /\ Settled(t)
                /\ pending' = pending \ {t}
                /\ completed_count' = count
                /\ IF Returned(t)
                   THEN /\ lmaps' = [lmaps EXCEPT !.final_map = final_map,
                                                  !.progs = Append(@, prog)]
                        /\ proj' = update_project(proj, [asset_map |-> final_map, progress |-> prog])
                        /\ logged' = logged
                   ELSE /\ lmaps' = [lmaps EXCEPT !.progs = Append(@, prog)]
                        /\ logged' = log_project(proj, logged, Log("Asset failed", t[2]))
                        /\ proj' = update_project(proj, [progress |-> prog])
                /\ UNCHANGED <<pc, snap, err, wrote, trail, succeeded>>
       \/ /\ pending = {}
          /\ Succeed([progress |-> StepProgress(step)])
          /\ UNCHANGED <<pending, completed_count, lmaps>>
    /\ UNCHANGED <<step, invocations, futs, done, histVars, rg, cr, rb, ws, mf, pools>>

\* --------------------------------------------------------- step_anchors
\* A key that files every artifact under the start slot of its segment.
AnchorKeyStartOnly(t) == <<t[2], "start">>

AnchorKey(t) == <<t[2], t[1]>>

\* Up to the first update inside the pool: the start task of every segment
\* is submitted; the local anchor_map is the persisted one.
AnchorsSubmit ==
    /\ pc = "body" /\ step = "anchors"
    /\ \/ /\ ~snap.exists
          /\ Raise("TypeError: NoneType")
          /\ UNCHANGED <<futs, pending, lmaps>>
       \/ /\ snap.exists /\ ~snap.manifest.present
          /\ Raise("AttributeError: NoneType")
          /\ UNCHANGED <<futs, pending, lmaps>>
       \/ /\ snap.exists /\ snap.manifest.present
          /\ ~snap.report.present /\ snap.manifest.timeline # <<>>
          /\ Raise("AttributeError: NoneType")
          /\ UNCHANGED <<futs, pending, lmaps>>
       \/ /\ snap.exists /\ snap.manifest.present
          /\ snap.report.present \/ snap.manifest.timeline = <<>>
          /\ LET tl == snap.manifest.timeline
                 starts == {<<"start", tl[i].id>> : i \in 1..Len(tl)}
             IN  /\ futs' = [t \in starts |-> Queued(None, None)]
                 /\ pending' = starts
          /\ lmaps' = [lmaps EXCEPT !.anchor_map = snap.anchor_map,
                                    !.progs = <<0>>,
                                    !.submitted = [i \in 1..Len(snap.manifest.timeline) |->
                                                      <<"start", snap.manifest.timeline[i].id>>]]
          /\ proj' = update_project(proj, [progress |-> 0])
          /\ pc' = "loop"
          /\ UNCHANGED <<err, wrote, trail, succeeded>>
    /\ UNCHANGED <<logged, step, snap, invocations, done, completed_count, histVars, rg, cr, rb, ws, mf, pools>>

\* wait(current_futs, FIRST_COMPLETED), or the end of the while loop.
AnchorsWait ==
    /\ pc = "loop" /\ step = "anchors"
    /\ \/ /\ pending # {}
          /\ \E t \in pending : Settled(t)
          /\ done' = {t \in pending : Settled(t)}
          /\ pc' = "handle"
          /\ UNCHANGED <<proj, logged, snap, err, wrote, trail, succeeded>>
       \/ /\ pending = {}
          /\ Succeed([progress |-> StepProgress(step)])
          /\ UNCHANGED done
    /\ UNCHANGED <<step, invocations, futs, pending, completed_count, lmaps, histVars, rg, cr, rb, ws, mf, pools>>

\* A scheduler that tracks the end task without handing it to the pool.
SubmitEndUntracked(fs, ef, start_image) == fs

\* pool.submit of the dependent end task, which gets the start image.
SubmitEnd(fs, ef, start_image) == Put(fs, ef, Queued(start_image, None))

\* A scheduler that spawns the end task whatever became of the start task.
SpawnsEndRegardless(t, seg) == t[1] = "start" /\ seg.mode = "fi"

\* A scheduler that spawns an end task after every successful start task.
SpawnsEndForAnyMode(t, seg) == futs[t].st = "ok" /\ t[1] = "start"

\* Whether the handled future gets a dependent end task: only inside the
\* success branch of a start future, for an fi segment.
SpawnsEnd(t, seg) == futs[t].st = "ok" /\ t[1] = "start" /\ seg.mode = "fi"

\* A progress figure against the segment count, without the cap.
AnchorProgressOfSegments(count, n) == (count * 100) \div n

\* A progress figure against the estimated total, without the cap.
AnchorProgressUnclamped(count, n) == (count * 200) \div (3 * n)

\* min(99, int((completed_count / (len(timeline) * 1.5)) * 100))
AnchorProgress(count, n) == Min(99, (count * 200) \div (3 * n))

\* The body of "for f in done".
AnchorsHandle(t) ==
    /\ pc = "handle" /\ step = "anchors"
    /\ t \in done
    /\ LET count == completed_count + 1
           n == Len(snap.manifest.timeline)
           prog == AnchorProgress(count, n)
           p1 == update_project(proj, [progress |-> prog])
           anchor_map == Put(lmaps.anchor_map, AnchorKey(t), futs[t].res)
           seg == SegOf(snap.manifest.timeline, t[2])
           ef == <<"end", t[2]>>
           submitted == IF SpawnsEnd(t, seg) THEN Append(lmaps.submitted, ef)
                        ELSE lmaps.submitted
       IN  /\ completed_count' = count
           /\ IF futs[t].st = "ok"
              THEN /\ lmaps' = [lmaps EXCEPT !.anchor_map = anchor_map, !.submitted = submitted,
                                             !.progs = Append(@, prog)]
                   /\ proj' = update_project(p1, [anchor_map |-> anchor_map])
                   /\ logged' = logged
              ELSE /\ lmaps' = [lmaps EXCEPT !.submitted = submitted, !.progs = Append(@, prog)]
                   /\ proj' = p1
                   /\ logged' = log_project(proj, logged, Log("anchor failed", t[1] \o " " \o t[2]))
           /\ IF SpawnsEnd(t, seg)
              THEN /\ futs' = SubmitEnd(futs, ef, futs[t].res)
                   /\ pending' = (pending \ {t}) \cup {ef}
              ELSE /\ futs' = futs
                   /\ pending' = pending \ {t}
    /\ done' = done \ {t}
    /\ pc' = IF done' = {} THEN "loop" ELSE "handle"
    /\ UNCHANGED <<step, snap, err, wrote, trail, succeeded, invocations, histVars, rg, cr, rb, ws, mf, pools>>

\* ------------------------------------------------------ step_production
\* A lookup by .get(), which answers None for an absent key.
StartAnchorOrNone(anchor_map, sid) ==
    [ok |-> TRUE, v |-> Get(anchor_map, <<sid, "start">>)]

\* anchor_map[f"{seg['id']}_start"]: the subscript raises KeyError on an
\* absent key.
StartAnchor(anchor_map, sid) ==
    IF <<sid, "start">> \in DOMAIN anchor_map
    THEN [ok |-> TRUE, v |-> anchor_map[<<sid, "start">>]]
    ELSE [ok |-> FALSE, v |-> "KeyError: " \o sid \o "_start"]

\* The first segment at which building the video futures raises: its start
\* anchor is not in anchor_map (KeyError), or the report is None.  0: none.
FirstBad(tl, anchor_map, report) ==
    LET bad == {i \in 1..Len(tl) :
                   ~StartAnchor(anchor_map, tl[i].id).ok \/ ~report.present}
    IN  IF bad = {} THEN 0 ELSE CHOOSE i \in bad : \A j \in bad : i <= j

SubmitError(seg, anchor_map) ==
    IF ~StartAnchor(anchor_map, seg.id).ok
    THEN StartAnchor(anchor_map, seg.id).v
    ELSE "AttributeError: NoneType"

VideoFuts(tl, anchor_map, upto) ==
    [t \in {<<"video", tl[i].id>> : i \in 1..upto} |->
        Queued(StartAnchor(anchor_map, t[2]).v, Get(anchor_map, <<t[2], "end">>))]

AudioFuts(tl) ==
    [t \in {<<"audio", tl[i].id>> : i \in 1..Len(tl)} |-> Queued(None, None)]

ProductionSubmit ==
    /\ pc = "body" /\ step = "production"
    /\ \/ /\ ~snap.exists
          /\ Raise("TypeError: NoneType")
          /\ UNCHANGED <<futs, pending, lmaps>>
       \/ /\ snap.exists /\ ~snap.manifest.present
          /\ Raise("AttributeError: NoneType")
          /\ UNCHANGED <<futs, pending, lmaps>>
       \/ /\ snap.exists /\ snap.manifest.present
          /\ LET tl == snap.manifest.timeline
                 bad == FirstBad(tl, snap.anchor_map, snap.report)
             IN  IF bad # 0
                 THEN \* the futures built before the exception still run
                      /\ futs' = VideoFuts(tl, snap.anchor_map, bad - 1)
                      /\ pending' = {}
                      /\ lmaps' = lmaps
                      /\ err' = SubmitError(tl[bad], snap.anchor_map)
                      /\ pc' = "unwind"
                      /\ UNCHANGED <<proj, wrote, trail, succeeded>>
                 ELSE /\ futs' = VideoFuts(tl, snap.anchor_map, Len(tl)) @@ AudioFuts(tl)
                      /\ pending' = DOMAIN futs'
                      /\ lmaps' = [lmaps EXCEPT !.v_map = snap.video_map,
                                                !.a_map = snap.audio_map]
                      /\ proj' = update_project(proj, [progress |-> 0])
                      /\ pc' = "loop"
                      /\ UNCHANGED <<err, wrote, trail, succeeded>>
    /\ UNCHANGED <<logged, step, snap, invocations, done, completed_count, histVars, rg, cr, rb, ws, mf, pools>>

\* Leaving the with block waits for every submitted future.
ProductionUnwind ==
    /\ pc = "unwind" /\ step = "production"
    /\ \A t \in DOMAIN futs : Settled(t)
    /\ pc' = "raised"
    /\ UNCHANGED <<proj, logged, step, snap, err, wrote, trail, succeeded, invocations,
                   poolVars, histVars, rg, cr, rb, ws, mf, pools>>

ProductionLoop ==
    /\ pc = "loop" /\ step = "production"
    /\ \/ \E t \in pending :
            LET count == completed_count + 1
                prog == (count * 100) \div Cardinality(DOMAIN futs)
                v_map == IF t[1] = "video" THEN Put(lmaps.v_map, t[2], futs[t].res)
                         ELSE lmaps.v_map
                a_map == IF t[1] = "audio" THEN Put(lmaps.a_map, t[2], futs[t].res)
                         ELSE lmaps.a_map
            IN  /\ Settled(t)
                /\ pending' = pending \ {t}
                /\ completed_count' = count
                /\ IF futs[t].st = "ok"
                   THEN /\ lmaps' = [lmaps EXCEPT !.v_map = v_map, !.a_map = a_map]
                        /\ proj' = update_project(proj, [video_map |-> v_map, audio_map |-> a_map,
                                                         progress |-> Min(99, prog)])
                        /\ logged' = logged
                   ELSE /\ lmaps' = lmaps
                        /\ proj' = proj
                        /\ logged' = log_project(proj, logged, Log(t[1] \o " failed", t[2]))
                /\ UNCHANGED <<pc, snap, err, wrote, trail, succeeded>>
       \/ /\ pending = {}
          /\ Succeed([progress |-> StepProgress(step)])
          /\ UNCHANGED <<pending, completed_count, lmaps>>
    /\ UNCHANGED <<step, invocations, futs, done, histVars, rg, cr, rb, ws, mf, pools>>

\* ------------------------------------------ step_assembly, task_assemble
AssemblyStart ==
    /\ pc = "body" /\ step = "assembly"
    /\ \/ /\ ~snap.exists
          /\ Raise("TypeError: NoneType")
          /\ UNCHANGED logged
       \/ /\ snap.exists /\ ~snap.manifest.present
          /\ logged' = log_project(proj, logged, Log("[ASSEMBLY] Finalizing", ""))
          /\ Raise("AttributeError: NoneType")
       \/ /\ snap.exists /\ snap.manifest.present
          /\ logged' = log_project(proj, logged, Log("[ASSEMBLY] Finalizing", ""))
          /\ pc' = "loop"
          /\ UNCHANGED <<proj, err, wrote, trail, succeeded>>
    /\ UNCHANGED <<step, snap, invocations, poolVars, histVars, rg, cr, rb, ws, mf, pools>>

\* A clip list that grows at its head.
AddClipFirst(clips, sid) == <<sid>> \o clips

\* clips.append(norm)
AddClip(clips, sid) == Append(clips, sid)

\* "if not vid_gcs: continue" and "if aud_gcs:" test the value .get() gave.
HasArtifact(m, sid) == Get(m, sid) # None

\* The files one iteration has put on disk once both fetches are through.
Fetched(sid, narrated) ==
    {<<"video", sid>>} \cup (IF narrated THEN {<<"narration", sid>>} ELSE {})

\* "prog = int(((i + 1) / total_segments) * 100)", i counted from 1 here.
AssemblyProgress(i, n) == (i * 100) \div n

\* The head of one iteration of the segment loop: the progress of segment
\* i is written before anything is done with the segment.  completed_count
\* is the index i.
AssemblyIteration ==
    /\ pc = "loop" /\ step = "assembly"
    /\ completed_count < Len(snap.manifest.timeline)
    /\ proj' = update_project(proj, [progress |->
                    AssemblyProgress(completed_count + 1, Len(snap.manifest.timeline))])
    /\ completed_count' = completed_count + 1
    /\ pc' = "segment"
    /\ UNCHANGED <<logged, step, snap, err, wrote, trail, succeeded, invocations, futs, pending,
                   done, lmaps, histVars, rg, cr, rb, ws, mf, pools>>

\* The rest of the iteration.  The fetches (ensure_local) stand before the
\* try block; only the filter graph runs inside it.
AssemblySegment ==
    /\ pc = "segment" /\ step = "assembly"
    /\ LET tl == snap.manifest.timeline
           i == completed_count
           sid == tl[i].id
           narrated == HasArtifact(snap.audio_map, sid)
       IN  /\ \/ /\ ~HasArtifact(snap.video_map, sid)
                 /\ pc' = "loop"
                 /\ UNCHANGED <<lmaps, logged, err>>
              \/ /\ HasArtifact(snap.video_map, sid)
                 /\ err' = "download failed: video " \o sid
                 /\ pc' = "raised"
                 /\ UNCHANGED <<lmaps, logged>>
              \/ /\ HasArtifact(snap.video_map, sid) /\ narrated
                 /\ err' = "download failed: narration " \o sid
                 /\ pc' = "raised"
                 /\ lmaps' = [lmaps EXCEPT !.temp = @ \cup {<<"video", sid>>}]
                 /\ UNCHANGED logged
              \/ /\ HasArtifact(snap.video_map, sid)
                 /\ lmaps' = [lmaps EXCEPT !.clips = AddClip(@, sid),
                                           !.attempted = @ \cup {sid},
                                           !.temp = @ \cup Fetched(sid, narrated)
                                                      \cup {<<"norm", sid>>}]
                 /\ pc' = "loop"
                 /\ UNCHANGED <<logged, err>>
              \/ /\ HasArtifact(snap.video_map, sid)
                 /\ logged' = log_project(proj, logged, Log("normalization failed", sid))
                 /\ lmaps' = [lmaps EXCEPT !.attempted = @ \cup {sid},
                                           !.temp = @ \cup Fetched(sid, narrated)]
                 /\ pc' = "loop"
                 /\ UNCHANGED err
    /\ UNCHANGED <<proj, step, snap, wrote, trail, succeeded, invocations, futs, pending, done,
                   completed_count, histVars, rg, cr, rb, ws, mf, pools>>

\* A test that takes any clip list for an artifact.
AssembledAlways(clips) == TRUE

\* "if clips:" in task_assemble, and "if final_path:" in step_assembly on
\* what it returned.
Assembled(clips) == clips # <<>>

\* After the loop: None when no clip was normalized; else the concat list,
\* the concatenation and the upload, and only then the cleanup.  The step's
\* own two branches follow the return.
AssemblyFinish ==
    /\ pc = "loop" /\ step = "assembly"
    /\ completed_count = Len(snap.manifest.timeline)
    /\ \/ /\ Assembled(lmaps.clips)
          /\ lmaps' = [lmaps EXCEPT !.temp = {}]
          /\ Succeed([progress |-> StepProgress(step), result |-> lmaps.clips])
       \/ /\ Assembled(lmaps.clips)
          /\ lmaps' = [lmaps EXCEPT !.temp = @ \cup {<<"list", "">>}]
          /\ Raise("CalledProcessError: concat")
          /\ UNCHANGED <<logged, snap>>
       \/ /\ Assembled(lmaps.clips)
          /\ lmaps' = [lmaps EXCEPT !.temp = @ \cup {<<"list", "">>, <<"final", "">>}]
          /\ Raise("upload failed: final")
          /\ UNCHANGED <<logged, snap>>
       \/ /\ ~Assembled(lmaps.clips)
          /\ proj' = update_project(proj, [status |-> "failed", error |-> "Assembly failed"])
          /\ wrote' = Append(wrote, "failed")
          /\ trail' = StatusTrail(proj, trail, "failed")
          /\ logged' = log_project(proj, logged, Log("Assembly FAILED", ""))
          /\ pc' = "done"
          /\ UNCHANGED <<lmaps, snap, err, succeeded>>
    /\ UNCHANGED <<step, invocations, futs, pending, done, completed_count, histVars, rg, cr, rb, ws, mf, pools>>

\* --------------------------------- regenerate_anchor_endpoint, _regen_task
\* The endpoint finds the segment in the persisted manifest and queues the
\* background task with the segment data it read.
regenerate_anchor_endpoint(sid, type) ==
    /\ rg.pc = "idle"
    /\ proj.exists
    /\ proj.manifest.present
    /\ sid \in TimelineIds(proj.manifest.timeline)
    /\ rg' = [pc |-> "queued", sid |-> sid, type |-> type]
    /\ UNCHANGED <<proj, logged, invVars, poolVars, histVars, cr, rb, ws, mf, pools>>

\* The reference handed to task_gen_anchor: the persisted start anchor for an
\* end regeneration, whatever .get() returns for it.
RegenStartAnchor(anchor_map, sid, type) ==
    IF type = "end" THEN Get(anchor_map, <<sid, "start">>) ELSE None

\* _regen_task.  The report is parsed before the task is called; the task is
\* called with no check on the reference, logs its first line and raises at
\* seg.get (seg is a pydantic model here), so anchor_map is never written.
RegenRun ==
    /\ rg.pc = "queued"
    /\ IF proj.exists /\ proj.report.present
       THEN /\ endStarts' =
                 IF rg.type = "end"
                 THEN endStarts \cup {[seg |-> rg.sid,
                                       ref |-> RegenStartAnchor(proj.anchor_map, rg.sid, rg.type),
                                       by |-> "regen"]}
                 ELSE endStarts
            /\ logged' = log_project(proj,
                             log_project(proj, logged, Log("Generating " \o rg.type, rg.sid)),
                             Log("Anchor regen failed", rg.sid))
       ELSE /\ endStarts' = endStarts
            /\ logged' = log_project(proj, logged, Log("Anchor regen failed", rg.sid))
    /\ rg' = [pc |-> "finished", sid |-> rg.sid, type |-> rg.type]
    /\ UNCHANGED <<proj, invVars, poolVars, veoReqs, cr, rb, ws, mf, pools>>

\* ----------------------------- task_gen_anchor under @retry_backoff()
\* retry_backoff(retries=2): the wrapped call is tried retries + 1 times.
RETRIES == 2
\* for attempt in range(3)
ANCHOR_ATTEMPTS == 3

\* A loop that gives up on the evaluator one attempt early.
ForcedAcceptFromSecond(attempt) == attempt >= 1

\* "if critique.get('approved') or attempt == 2": the attempt whose
\* candidate is kept whatever the evaluator says.
ForcedAccept(attempt) == attempt = 2

\* What generate_content and task_critique_anchor can answer.
GenOutcomes == {"image", "empty", "raise"}
EvalOutcomes == {"approve", "reject", "raise"}

\* The improved_prompt entry of the evaluator's JSON answer
\* (AnchorCritiqueResult declares it Optional[str] = None): a replacement
\* prompt, no such key, or the key holding null.
Improved == {"revised", "absent", "null"}

\* "current_prompt = critique.get('improved_prompt', current_prompt)": the
\* default is used only when the key is missing; a null entry is returned
\* as it is and the current prompt becomes None ("null").
RevisedPrompt(current_prompt, improved_prompt) ==
    IF improved_prompt = "absent" THEN current_prompt ELSE improved_prompt

\* The wrapper calls task_gen_anchor for the first time.
CritiqueCall ==
    /\ cr.pc = "idle"
    /\ \E is_end \in BOOLEAN, start_anchor_path \in {None, "prior"}, has_end_prompt \in BOOLEAN :
          cr' = [pc |-> "gen", i |-> 0, attempt |-> 0, is_end |-> is_end,
                 start_anchor_path |-> IF is_end THEN start_anchor_path ELSE None,
                 seg_prompt |-> IF is_end /\ has_end_prompt
                                THEN "end_anchor_prompt" ELSE "anchor_prompt",
                 current_prompt |-> IF is_end /\ has_end_prompt
                                    THEN "end_anchor_prompt" ELSE "anchor_prompt",
                 critique |-> [verdict |-> "none", improved_prompt |-> "absent"],
                 gens |-> 0, revisions |-> 0, warnings |-> 0, refs |-> 0,
                 tmp |-> 0, uploaded |-> 0, result |-> 0,
                 allImage |-> TRUE, allRejected |-> TRUE]
    /\ logged' = log_project(proj, logged, Log("Generating", "anchor"))
    /\ UNCHANGED <<proj, invVars, poolVars, histVars, rg, rb, ws, mf, pools>>

\* The end of one pass of the attempt loop that kept nothing: the next
\* attempt, or RuntimeError after the last one, which the wrapper answers
\* with a new call unless it was call number retries.
NextAttempt(c) ==
    IF c.attempt + 1 < ANCHOR_ATTEMPTS
    THEN [c EXCEPT !.pc = "gen", !.attempt = c.attempt + 1]
    ELSE IF c.i = RETRIES
         THEN [c EXCEPT !.pc = "failed"]
         ELSE [c EXCEPT !.pc = "gen", !.attempt = 0, !.i = c.i + 1,
                        !.current_prompt = c.seg_prompt]

\* generate_content: an image is written to the temp path, or the attempt
\* is logged as failed.
CritiqueGenerate ==
    /\ cr.pc = "gen"
    /\ \E o \in GenOutcomes :
          LET c == [cr EXCEPT !.gens = cr.gens + 1,
                              !.refs = IF cr.is_end /\ cr.start_anchor_path # None
                                       THEN cr.refs + 1 ELSE cr.refs,
                              !.allImage = cr.allImage /\ o = "image"]
          IN  IF o = "image"
              THEN /\ cr' = [c EXCEPT !.pc = "eval", !.tmp = c.gens]
                   /\ logged' = logged
              ELSE /\ cr' = NextAttempt(c)
                   /\ logged' = log_project(proj, logged, Log("Anchor gen attempt failed", o))
    /\ UNCHANGED <<proj, invVars, poolVars, histVars, rg, rb, ws, mf, pools>>

\* task_critique_anchor and the branch on its verdict.
CritiqueEvaluate ==
    /\ cr.pc = "eval"
    /\ \E o \in EvalOutcomes, improved_prompt \in Improved :
          LET c == [cr EXCEPT !.allRejected = cr.allRejected /\ o = "reject",
                              !.critique = [verdict |-> o, improved_prompt |-> improved_prompt]]
              kept == [c EXCEPT !.pc = "ret", !.uploaded = c.tmp, !.result = c.tmp] IN
          CASE o = "approve" ->
                  /\ cr' = kept
                  /\ logged' = logged
            [] o = "reject" /\ ForcedAccept(c.attempt) ->
                  /\ cr' = [kept EXCEPT !.warnings = c.warnings + 1]
                  /\ logged' = log_project(proj, logged, Log("WARNING forced acceptance", "anchor"))
            [] o = "reject" /\ ~ForcedAccept(c.attempt) ->
                  /\ cr' = NextAttempt([c EXCEPT !.revisions = c.revisions + 1,
                                                 !.current_prompt =
                                                     RevisedPrompt(c.current_prompt, improved_prompt)])
                  /\ logged' = logged
            [] OTHER ->
                  /\ cr' = NextAttempt(c)
                  /\ logged' = log_project(proj, logged, Log("Anchor gen attempt exception", o))
    /\ UNCHANGED <<proj, invVars, poolVars, histVars, rg, rb, ws, mf, pools>>

\* -------------------------------------------------------- specifications
\* Nothing is scheduled or running.
Fresh ==
    /\ logged = {}
    /\ pc = "idle"
    /\ step = None
    /\ snap = NoProject
    /\ err = None
    /\ wrote = <<>>
    /\ trail = <<proj.status>>
    /\ invocations = 0
    /\ futs = EmptyMap
    /\ pending = {}
    /\ done = {}
    /\ completed_count = 0
    /\ lmaps = NoLocalMaps
    /\ veoReqs = {}
    /\ endStarts = {}
    /\ rg = RegenIdle
    /\ cr = CritiqueIdle
    /\ rb = RetryIdle
    /\ ws = NoWriters
    /\ mf = NoPlanning
    /\ pools = NoPools

\* The project after the first k steps have each run once and succeeded with
\* every task succeeding ("prior" artifacts).
Staged(k, files, report, manifest) ==
    [exists |-> TRUE]
    @@ (IF k >= 1 THEN [status |-> SuccessStatus(StepOrder[k]),
                        current_step |-> StepOrder[k],
                        progress |-> StepProgress(StepOrder[k]),
                        potential_assets |-> files]
        ELSE [exists |-> TRUE])
    @@ (IF k >= 2 THEN [report |-> report] ELSE [exists |-> TRUE])
    @@ (IF k >= 3 THEN [manifest |-> manifest] ELSE [exists |-> TRUE])
    @@ (IF k >= 4 THEN [asset_map |-> [a \in report.assets |-> "prior"]] ELSE [exists |-> TRUE])
    @@ (IF k >= 5 THEN [anchor_map |-> [x \in AnchorKeys(manifest.timeline) |-> "prior"]]
        ELSE [exists |-> TRUE])
    @@ (IF k >= 6 THEN [video_map |-> [x \in TimelineIds(manifest.timeline) |-> "prior"],
                        audio_map |-> [x \in TimelineIds(manifest.timeline) |-> "prior"]]
        ELSE [exists |-> TRUE])
    @@ (IF k >= 7 THEN [result |-> [i \in 1..Len(manifest.timeline) |-> manifest.timeline[i].id]]
        ELSE [exists |-> TRUE])
    @@ create_project(files)

\* A stage that can be reached: assembly completes only with a clip.  The
\* uploads and the roster vary where the next steps read them.
StageReachable(k, files, report, manifest) ==
    /\ k = 7 => manifest.timeline # <<>>
    /\ k >= 2 => files = Files
    /\ k >= 5 => report.assets = AssetIds

Init ==
    /\ \E k \in 0..7, files \in SUBSET Files, report \in Reports, manifest \in PipelineManifests :
          /\ StageReachable(k, files, report, manifest)
          /\ proj = Staged(k, files, report, manifest)
          /\ succeeded = {StepOrder[i] : i \in 1..k}
    /\ Fresh

StepActions ==
    \/ StepBegin
    \/ StepHandler
    \/ \E t \in DOMAIN futs : TaskStart(t)
    \/ \E t \in DOMAIN futs : TaskFinish(t)
    \/ IngestSubmit
    \/ IngestLoop
    \/ step_detective
    \/ step_planning
    \/ AssetsSubmit
    \/ AssetsLoop
    \/ AnchorsSubmit
    \/ AnchorsWait
    \/ \E t \in done : AnchorsHandle(t)
    \/ ProductionSubmit
    \/ ProductionUnwind
    \/ ProductionLoop
    \/ AssemblyStart
    \/ AssemblyIteration
    \/ AssemblySegment
    \/ AssemblyFinish

Next ==
    \/ \E s \in StepNames : invocations < MaxInvocations /\ run_step_endpoint(s)
    \/ delete_project
    \/ StepActions

Spec == Init /\ [][Next]_vars

\* A background step, its pool workers included, keeps running until it returns.
FairSpec == Spec /\ WF_vars(StepActions)

\* ------------------------------------ the anchor step and regeneration
\* Anchor maps an earlier run of the anchor step can have left: an end
\* anchor is only ever written after the start anchor of its segment.
PriorAnchorMaps(tl) ==
    {[x \in K |-> "prior"] :
        K \in {K \in SUBSET AnchorKeys(tl) :
                 \A id \in TimelineIds(tl) : <<id, "end">> \in K => <<id, "start">> \in K}}

FullReport == [present |-> TRUE, assets |-> AssetIds]

\* The step s has been accepted by run_step_endpoint and not begun.
Scheduled(s) ==
    /\ logged = {}
    /\ pc = "scheduled"
    /\ step = s
    /\ snap = NoProject
    /\ err = None
    /\ wrote = <<>>
    /\ trail = <<proj.status>>
    /\ invocations = 1
    /\ futs = EmptyMap
    /\ pending = {}
    /\ done = {}
    /\ completed_count = 0
    /\ lmaps = NoLocalMaps
    /\ veoReqs = {}
    /\ endStarts = {}
    /\ rg = RegenIdle
    /\ cr = CritiqueIdle
    /\ rb = RetryIdle
    /\ ws = NoWriters
    /\ mf = NoPlanning
    /\ pools = NoPools

InitAnchors ==
    /\ \E manifest \in Manifests :
          \E prior \in PriorAnchorMaps(manifest.timeline) :
             LET k == IF prior = EmptyMap THEN 4 ELSE 5 IN
             /\ proj = [Staged(k, Files, FullReport, manifest) EXCEPT !.anchor_map = prior]
             /\ succeeded = {StepOrder[i] : i \in 1..k}
    /\ Scheduled("anchors")

AnchorsActions ==
    \/ StepBegin
    \/ StepHandler
    \/ \E t \in DOMAIN futs : TaskStart(t)
    \/ \E t \in DOMAIN futs : TaskFinish(t)
    \/ AnchorsSubmit
    \/ AnchorsWait
    \/ \E t \in done : AnchorsHandle(t)

RegenActions ==
    \/ \E sid \in SegIds, type \in {"start", "end"} : regenerate_anchor_endpoint(sid, type)
    \/ RegenRun

NextAnchors ==
    \/ AnchorsActions
    \/ RegenActions
    \/ delete_project

SpecAnchors == InitAnchors /\ [][NextAnchors]_vars

\* Every thread that can take a step eventually takes one: the step's own
\* thread and the pool workers, whose tasks all terminate.
FairSpecAnchors == SpecAnchors /\ WF_vars(AnchorsActions)

\* ------------------------------------------------- the production step
InitProduction ==
    /\ \E manifest \in Manifests, media \in BOOLEAN :
          \E prior \in PriorAnchorMaps(manifest.timeline) :
             LET k == IF media THEN 6 ELSE 5 IN
             /\ proj = [Staged(k, Files, FullReport, manifest) EXCEPT !.anchor_map = prior]
             /\ succeeded = {StepOrder[i] : i \in 1..k}
    /\ Scheduled("production")

ProductionActions ==
    \/ StepBegin
    \/ StepHandler
    \/ \E t \in DOMAIN futs : TaskStart(t)
    \/ \E t \in DOMAIN futs : TaskFinish(t)
    \/ ProductionSubmit
    \/ ProductionUnwind
    \/ ProductionLoop

NextProduction ==
    \/ ProductionActions
    \/ delete_project

SpecProduction == InitProduction /\ [][NextProduction]_vars

\* --------------------------------------------------- the critique loop
InitCritique ==
    /\ \E manifest \in PipelineManifests :
          /\ proj = Staged(4, Files, FullReport, manifest)
          /\ succeeded = {StepOrder[i] : i \in 1..4}
    /\ Fresh

NextCritique ==
    \/ CritiqueCall
    \/ CritiqueGenerate
    \/ CritiqueEvaluate
    \/ delete_project

SpecCritique == InitCritique /\ [][NextCritique]_vars

\* ================================================================ claims
\* ----------------------------------------------------------------- Spec
\* C1: an exception raised in the body of a step is caught by the step: the
\* invocation ends normally, the last status it wrote is 'failed', and while
\* the project exists its persisted status is 'failed' and its error field
\* is the exception's message.
C1_ExceptionBecomesFailed ==
    (pc = "done" /\ err # None) =>
        /\ wrote = <<"running", "failed">>
        /\ proj.exists => (proj.status = "failed" /\ proj.error = err)

C1_Witness ==
    /\ pc = "done" /\ step = "planning"
    /\ err = "task_architect failed"
    /\ proj.exists /\ proj.status = "failed" /\ proj.error = err

\* C2: an invocation first writes status 'running' with current_step set to
\* its step, and when it is finished the last status it wrote is 'failed' or
\* the success status of its own step; it never ends on 'running'.
C2_RunningThenFinal ==
    LET own == [ingest |-> "waiting_detective", detective |-> "waiting_planning",
                planning |-> "waiting_assets", assets |-> "waiting_anchors",
                anchors |-> "waiting_production", production |-> "waiting_assembly",
                assembly |-> "completed"]
    IN  /\ pc \in {"body", "loop", "handle", "unwind", "raised"} =>
              /\ wrote = <<"running">>
              /\ proj.exists => (proj.status = "running" /\ proj.current_step = step)
        /\ pc = "done" =>
              /\ Len(wrote) = 2
              /\ wrote[1] = "running"
              /\ wrote[2] \in {"failed", own[step]}
              /\ proj.exists => (proj.status = wrote[2] /\ proj.current_step = step)

C2_Witness ==
    /\ pc = "done" /\ step = "assembly"
    /\ wrote = <<"running", "completed">>
    /\ proj.exists /\ proj.status = "completed"

\* C3: a step has ended in its success status only if the step before it in
\* the order ingest, detective, planning, assets, anchors, production,
\* assembly has ended in its success status for the project.
C3_StrictOrder ==
    \A s \in succeeded :
        StepIndex(s) > 1 => StepOrder[StepIndex(s) - 1] \in succeeded

\* ------------------------------------------------------- SpecProduction
\* C4: whatever video and audio tasks cannot succeed, a missing start anchor
\* included, the production step ends in waiting_assembly and every result a
\* task of the invocation returned is recorded in video_map / audio_map.
C4_SegmentIsolation ==
    (pc = "done" /\ step = "production" /\ snap.exists) =>
        /\ wrote[2] = "waiting_assembly"
        /\ proj.exists =>
              \A t \in DOMAIN futs :
                  futs[t].st = "ok" =>
                      Get(IF t[1] = "video" THEN proj.video_map ELSE proj.audio_map, t[2])
                          = futs[t].res

C6_FiNeedsEndAnchor ==
    \A r \in veoReqs : r.mode = "fi" => r.last_frame # None

\* ---------------------------------------------------------- SpecAnchors
\* C7 (as amended): for an interpolated segment whose start-anchor task
\* failed, the step submits no end-anchor task, and the persisted anchor_map
\* holds for the segment exactly what it held when the step read it.
C7_FailedStartLeavesSegmentAlone ==
    \A s \in SegIds :
        ( /\ step = "anchors"
          /\ snap.exists
          /\ s \in TimelineIds(snap.manifest.timeline)
          /\ SegOf(snap.manifest.timeline, s).mode = "fi"
          /\ <<"start", s>> \in DOMAIN futs
          /\ futs[<<"start", s>>].st = "fail" ) =>
            /\ <<"end", s>> \notin DOMAIN futs
            /\ <<"end", s>> \notin pending
            /\ \A e \in endStarts : e.by = "step" => e.seg # s
            /\ proj.exists =>
                  \A slot \in {"start", "end"} :
                      Get(proj.anchor_map, <<s, slot>>) = Get(snap.anchor_map, <<s, slot>>)

C7_Witness ==
    /\ pc = "done" /\ step = "anchors"
    /\ snap.exists /\ snap.manifest.timeline # <<>>
    /\ snap.manifest.timeline[1].mode = "fi"
    /\ <<"start", "s1">> \in DOMAIN futs /\ futs[<<"start", "s1">>].st = "fail"
    /\ proj.exists /\ proj.status = "waiting_production"
    /\ Get(proj.anchor_map, <<"s1", "start">>) = "prior"

\* C7 as stated: after the step has finished, the persisted anchor_map
\* contains neither key of such a segment, on a re-invocation as well.
C7_NeitherKeyPersisted ==
    \A s \in SegIds :
        ( /\ step = "anchors" /\ pc = "done"
          /\ snap.exists /\ proj.exists
          /\ s \in TimelineIds(snap.manifest.timeline)
          /\ SegOf(snap.manifest.timeline, s).mode = "fi"
          /\ <<"start", s>> \in DOMAIN futs
          /\ futs[<<"start", s>>].st = "fail" ) =>
            /\ <<"end", s>> \notin DOMAIN futs
            /\ <<s, "start">> \notin DOMAIN proj.anchor_map
            /\ <<s, "end">> \notin DOMAIN proj.anchor_map

\* C8: an end-anchor task is started only with the image of a start anchor
\* that was produced for its segment, whoever calls it.
C8_EndStartsWithStartImage ==
    \A e \in endStarts : e.ref # None

\* ------------------------------------------------------ FairSpecAnchors
\* C9: the scheduling loop of the anchor step never waits on a future the
\* pool does not hold, and it ends with no future left in its sets.
C9_LoopTerminates ==
    /\ [](pending \subseteq DOMAIN futs)
    /\ <>(pc = "done" /\ pending = {} /\ done = {})

C9_Witness ==
    /\ pc = "done" /\ step = "anchors"
    /\ wrote = <<"running", "waiting_production">>
    /\ Len(snap.manifest.timeline) > PoolWidth
    /\ \E s \in SegIds : <<"end", s>> \in DOMAIN futs /\ futs[<<"end", s>>].st = "fail"
    /\ \E s \in SegIds : <<"start", s>> \in DOMAIN futs /\ futs[<<"start", s>>].st = "fail"
    /\ pending = {}

C11_AlwaysAnArtifact ==
    cr.pc # "idle" =>
        /\ cr.pc # "failed"
        /\ cr.gens <= 3
        /\ cr.revisions <= 2

\* ------------------------------------------------------- retry_backoff
\* Largest retries and delay arguments followed.
MaxRetries == 3
MaxDelay == 2

\* What a failed call of the wrapped operation raises.
ErrorKinds == {"TransientExternal", "ValidationFailure"}

\* A wait that stays what it was.
SameDelay(cd) == cd

\* "cd *= 2" after each sleep.
NextDelay(cd) == cd * 2

\* wrapper(*args): cd = delay, before the first pass of the loop.
RetryCall ==
    /\ rb.pc = "idle"
    /\ \E retries \in 0..MaxRetries, delay \in 1..MaxDelay :
          rb' = [pc |-> "try", retries |-> retries, delay |-> delay, i |-> 0, cd |-> delay,
                 calls |-> 0, warnings |-> 0, sleeps |-> <<>>, errors |-> <<>>,
                 value |-> 0, raised |-> None]
    /\ UNCHANGED <<proj, logged, invVars, poolVars, histVars, rg, cr, ws, mf, pools>>

\* One pass of "for i in range(retries + 1)": the call returns, and its
\* value (named by the number of the call) is the wrapper's; or it raises,
\* and the wrapper re-raises on pass number retries, else warns, sleeps cd
\* and doubles cd.
RetryAttempt ==
    /\ rb.pc = "try"
    /\ LET c == [rb EXCEPT !.calls = rb.calls + 1] IN
       \/ rb' = [c EXCEPT !.pc = "ret", !.value = c.calls]
       \/ \E e \in ErrorKinds :
             LET f == [c EXCEPT !.errors = Append(c.errors, e)] IN
             IF rb.i = rb.retries
             THEN rb' = [f EXCEPT !.pc = "raised", !.raised = e]
             ELSE rb' = [f EXCEPT !.warnings = f.warnings + 1,
                                  !.sleeps = Append(f.sleeps, f.cd),
                                  !.cd = NextDelay(f.cd),
                                  !.i = f.i + 1]
    /\ UNCHANGED <<proj, logged, invVars, poolVars, histVars, rg, cr, ws, mf, pools>>

InitRetry ==
    /\ \E manifest \in PipelineManifests :
          /\ proj = Staged(4, Files, FullReport, manifest)
          /\ succeeded = {StepOrder[i] : i \in 1..4}
    /\ Fresh

NextRetry ==
    \/ RetryCall
    \/ RetryAttempt

SpecRetry == InitRetry /\ [][NextRetry]_vars

\* C12: retry_backoff(retries=R, delay=D) makes at most R+1 calls; it
\* returns the value of the first call that succeeds, every earlier call
\* having failed; the i-th failed call (i = 0..R-1) is followed by one
\* warning and a sleep of D*2^i; when all R+1 calls fail it raises the error
\* of the last call.  Failing twice and succeeding on call 3 gives 2 warnings
\* and a total sleep of D + 2D.
C12_RetryBackoff ==
    LET Pow2[n \in 0..(MaxRetries + 1)] == IF n = 0 THEN 1 ELSE 2 * Pow2[n - 1]
        Total[n \in 0..(MaxRetries + 1)] ==
            IF n = 0 THEN 0 ELSE Total[n - 1] + (IF n <= Len(rb.sleeps) THEN rb.sleeps[n] ELSE 0)
    IN  rb.pc # "idle" =>
          /\ rb.calls <= rb.retries + 1
          /\ rb.warnings = Len(rb.sleeps)
          /\ \A k \in 1..Len(rb.sleeps) : rb.sleeps[k] = rb.delay * Pow2[k - 1]
          /\ rb.pc = "try" => (rb.calls = Len(rb.errors) /\ rb.warnings = rb.calls)
          /\ rb.pc = "ret" =>
                /\ rb.value = rb.calls
                /\ Len(rb.errors) = rb.calls - 1
                /\ rb.warnings = rb.calls - 1
          /\ rb.pc = "raised" =>
                /\ rb.calls = rb.retries + 1
                /\ Len(rb.errors) = rb.calls
                /\ rb.raised = rb.errors[rb.calls]
                /\ rb.warnings = rb.retries
          /\ (rb.pc = "ret" /\ rb.calls = 3) =>
                /\ rb.warnings = 2
                /\ Total[MaxRetries + 1] = rb.delay + 2 * rb.delay

C12_Witness ==
    /\ rb.pc = "ret" /\ rb.retries = 2 /\ rb.delay = 2
    /\ rb.calls = 3 /\ rb.value = 3
    /\ rb.warnings = 2 /\ rb.sleeps = <<2, 4>>

\* ------------------------------------------------- the asset step alone
\* Largest roster the asset step is followed on.
MaxRoster == 3
RosterIds == {AssetName[i] : i \in 1..MaxRoster}

InitAssets ==
    /\ \E roster \in SUBSET RosterIds, manifest \in PipelineManifests, had \in BOOLEAN :
          LET k == IF had THEN 4 ELSE 3 IN
          /\ proj = Staged(k, Files, [present |-> TRUE, assets |-> roster], manifest)
          /\ succeeded = {StepOrder[i] : i \in 1..k}
    /\ Scheduled("assets")

AssetsActions ==
    \/ StepBegin
    \/ StepHandler
    \/ \E t \in DOMAIN futs : TaskStart(t)
    \/ \E t \in DOMAIN futs : TaskFinish(t)
    \/ AssetsSubmit
    \/ AssetsLoop

NextAssets ==
    \/ AssetsActions
    \/ delete_project

SpecAssets == InitAssets /\ [][NextAssets]_vars

C14_AssetFailureIsolated ==
    (step = "assets" /\ pc = "done" /\ snap.exists /\ snap.report.present) =>
        /\ DOMAIN futs = {<<"asset", a>> : a \in snap.report.assets}
        /\ pending = {}
        /\ \A t \in DOMAIN futs :
              /\ futs[t].st \in {"ok", "fail"}
              /\ futs[t].st = "fail" =>
                    /\ t[2] \notin DOMAIN lmaps.final_map
                    /\ proj.exists => Log("Asset failed", t[2]) \in logged
              /\ futs[t].st = "ok" =>
                    /\ t[2] \in DOMAIN lmaps.final_map
                    /\ lmaps.final_map[t[2]] = futs[t].res
        /\ (proj.exists /\ lmaps.final_map # EmptyMap) => proj.asset_map = lmaps.final_map
        /\ wrote = <<"running", "waiting_anchors">>

C14_Witness ==
    /\ step = "assets" /\ pc = "done"
    /\ <<"asset", "a1">> \in DOMAIN futs /\ futs[<<"asset", "a1">>].st = "fail"
    /\ <<"asset", "a2">> \in DOMAIN futs /\ futs[<<"asset", "a2">>].st = "ok"
    /\ <<"asset", "a3">> \in DOMAIN futs /\ futs[<<"asset", "a3">>].st = "ok"
    /\ snap.exists /\ "a1" \in DOMAIN snap.asset_map
    /\ proj.exists /\ DOMAIN proj.asset_map = {"a2", "a3"}

\* ------------------------------------------- a whole run, every call succeeding
\* The architect plans two segments, one i2v and one fi.
EndToEndManifests ==
    {m \in Manifests : Len(m.timeline) = 2 /\ {m.timeline[i].mode : i \in 1..2} = Modes}

\* The client calls the seven step endpoints in pipeline order, each after the
\* step before it has finished.
InvokeInOrder ==
    /\ invocations < Len(StepOrder)
    /\ run_step_endpoint(StepOrder[invocations + 1])

\* No service, media tool or store call has failed so far: no exception, no
\* failed or fallback task, no segment dropped by the assembler.
AllCallsSucceed ==
    /\ proj.exists
    /\ pc \notin {"raised", "unwind"}
    /\ \A t \in DOMAIN futs : futs[t].st # "fail" /\ futs[t].res # "fallback"
    /\ \A sid \in lmaps.attempted : \E i \in 1..Len(lmaps.clips) : lmaps.clips[i] = sid
    /\ proj.status # "failed"
    /\ "detective" \in succeeded => proj.report.present

InitEndToEnd ==
    /\ \E files \in SUBSET Files : proj = create_project(files)
    /\ succeeded = {}
    /\ Fresh

NextEndToEnd ==
    \/ InvokeInOrder /\ AllCallsSucceed'
    \/ StepBegin /\ AllCallsSucceed'
    \/ \E t \in DOMAIN futs : TaskStart(t) /\ AllCallsSucceed'
    \/ \E t \in DOMAIN futs : TaskFinish(t) /\ AllCallsSucceed'
    \/ IngestSubmit /\ AllCallsSucceed'
    \/ IngestLoop /\ AllCallsSucceed'
    \/ step_detective /\ AllCallsSucceed'
    \/ Planning(EndToEndManifests) /\ AllCallsSucceed'
    \/ AssetsSubmit /\ AllCallsSucceed'
    \/ AssetsLoop /\ AllCallsSucceed'
    \/ AnchorsSubmit /\ AllCallsSucceed'
    \/ AnchorsWait /\ AllCallsSucceed'
    \/ \E t \in done : AnchorsHandle(t) /\ AllCallsSucceed'
    \/ ProductionSubmit /\ AllCallsSucceed'
    \/ ProductionLoop /\ AllCallsSucceed'
    \/ AssemblyStart /\ AllCallsSucceed'
    \/ AssemblyIteration /\ AllCallsSucceed'
    \/ AssemblySegment /\ AllCallsSucceed'
    \/ AssemblyFinish /\ AllCallsSucceed'

SpecEndToEnd == InitEndToEnd /\ [][NextEndToEnd]_vars

\* C15: with a two-segment manifest (one i2v, one fi), every call succeeding
\* and the seven steps invoked in order, the status of the project runs
\* through idle, running, waiting_detective, running, waiting_planning,
\* running, waiting_assets, running, waiting_anchors, running,
\* waiting_production, running, waiting_assembly, running, completed, and the
\* final video holds the clips of the segments in timeline order.
C15_EndToEndStatuses ==
    LET expected == <<"idle", "running", "waiting_detective", "running", "waiting_planning",
                      "running", "waiting_assets", "running", "waiting_anchors", "running",
                      "waiting_production", "running", "waiting_assembly", "running",
                      "completed">>
        tl == proj.manifest.timeline
    IN  /\ Len(trail) <= Len(expected)
        /\ trail = SubSeq(expected, 1, Len(trail))
        /\ (pc = "done" /\ step = "assembly") =>
              /\ trail = expected
              /\ lmaps.clips = [i \in 1..Len(tl) |-> tl[i].id]
              /\ proj.result = lmaps.clips

C15_Witness ==
    /\ pc = "done" /\ step = "assembly" /\ invocations = 7
    /\ proj.status = "completed"
    /\ Len(trail) = 15
    /\ Len(lmaps.clips) = 2
    /\ proj.manifest.timeline[1].mode = "fi"

MediaMaps(tl, values) == UNION {[K -> values] : K \in SUBSET TimelineIds(tl)}

InitAssembly ==
    /\ \E manifest \in Manifests :
          \E vm \in MediaMaps(manifest.timeline, {"prior"}),
             am \in MediaMaps(manifest.timeline, {"prior", None}) :
             /\ proj = [Staged(6, Files, FullReport, manifest)
                          EXCEPT !.video_map = vm, !.audio_map = am]
             /\ succeeded = {StepOrder[i] : i \in 1..6}
    /\ Scheduled("assembly")

NextAssembly ==
    \/ StepBegin
    \/ StepHandler
    \/ AssemblyStart
    \/ AssemblyIteration
    \/ AssemblySegment
    \/ AssemblyFinish
    \/ delete_project

SpecAssembly == InitAssembly /\ [][NextAssembly]_vars

\* C18: the clips handed to the concatenation are the segments that have a
\* video artifact and whose normalization succeeded, in the relative order of
\* the timeline; a segment without a video artifact is never normalized.
C18_ClipsInTimelineOrder ==
    (step = "assembly" /\ pc \in {"loop", "raised", "done"} /\ snap.exists /\ snap.manifest.present) =>
        LET tl == snap.manifest.timeline
            clips == lmaps.clips
            at(sid) == CHOOSE i \in 1..Len(tl) : tl[i].id = sid
        IN  /\ \A j \in 1..Len(clips) :
                  /\ clips[j] \in TimelineIds(tl)
                  /\ Get(snap.video_map, clips[j]) # None
                  /\ clips[j] \in lmaps.attempted
            /\ \A j, k \in 1..Len(clips) : j < k => at(clips[j]) < at(clips[k])
            /\ \A sid \in lmaps.attempted : Get(snap.video_map, sid) # None
            /\ pc = "loop" =>
                  {clips[j] : j \in 1..Len(clips)} =
                      {sid \in lmaps.attempted : <<"norm", sid>> \in lmaps.temp}
            /\ (pc = "done" /\ proj.exists /\ proj.status = "completed") => proj.result = clips

C18_Witness ==
    /\ step = "assembly" /\ pc = "done" /\ proj.exists /\ proj.status = "completed"
    /\ Len(snap.manifest.timeline) = 2
    /\ Len(lmaps.clips) = 2

\* C19: when the assembly step has ended with at least one segment
\* normalized and neither the concatenation nor the final upload failed, a
\* failure on another segment (its fetches included) has only dropped that
\* segment and the project is completed.
C19_SegmentFailureIsolated ==
    ( /\ step = "assembly" /\ pc = "done" /\ proj.exists
      /\ lmaps.clips # <<>>
      /\ err \notin {"CalledProcessError: concat", "upload failed: final"} ) =>
        proj.status = "completed"

\* C20: when task_assemble has returned or raised, no intermediate file it
\* created is left on disk.
C20_NoLeftovers ==
    (step = "assembly" /\ pc \in {"raised", "done"}) => lmaps.temp = {}

\* ------------------------------------------ writers outside the step machine
\* Background tasks queued by the regeneration endpoints, and the progress
\* write of one iteration of task_assemble, all running against one project.
MaxWriters == 2
WriterIds == 1..MaxWriters

RegenMap(kind) == IF kind = "asset" THEN "asset_map" ELSE "video_map"

Writer(kind, at, key, val) == [kind |-> kind, pc |-> at, key |-> key, val |-> val, read |-> EmptyMap]

\* regenerate_asset_endpoint: 404 unless the asset is in the report.
regenerate_asset_endpoint(w, aid) ==
    /\ w \notin DOMAIN ws
    /\ proj.exists /\ proj.report.present
    /\ aid \in proj.report.assets
    /\ ws' = Put(ws, w, Writer("asset", "task", aid, "regen"))
    /\ UNCHANGED <<proj, logged, invVars, poolVars, histVars, rg, cr, rb, mf, pools>>

\* regenerate_video_endpoint: 404 unless the segment is in the timeline.
regenerate_video_endpoint(w, sid) ==
    /\ w \notin DOMAIN ws
    /\ proj.exists /\ proj.manifest.present
    /\ sid \in TimelineIds(proj.manifest.timeline)
    /\ ws' = Put(ws, w, Writer("video", "task", sid, "regen"))
    /\ UNCHANGED <<proj, logged, invVars, poolVars, histVars, rg, cr, rb, mf, pools>>

\* One iteration of task_assemble has computed prog and calls update_project.
AssembleProgress(w, i) ==
    /\ w \notin DOMAIN ws
    /\ proj.exists /\ proj.manifest.present
    /\ i \in 1..Len(proj.manifest.timeline)
    /\ ws' = Put(ws, w, Writer("progress", "write", None,
                               (i * 100) \div Len(proj.manifest.timeline)))
    /\ UNCHANGED <<proj, logged, invVars, poolVars, histVars, rg, cr, rb, mf, pools>>

\* The generation call of a regeneration task returns a path or raises; a
\* raise is logged by the task and nothing is written.  The video task needs
\* the persisted start anchor.
RegenTask(w) ==
    /\ w \in DOMAIN ws /\ ws[w].pc = "task"
    /\ \/ /\ ws[w].kind = "video" =>
                (proj.exists /\ Get(proj.anchor_map, <<ws[w].key, "start">>) # None)
          /\ ws' = [ws EXCEPT ![w].pc = "read"]
          /\ UNCHANGED logged
       \/ /\ ws' = [ws EXCEPT ![w].pc = "failed"]
          /\ logged' = log_project(proj, logged, Log(ws[w].kind \o " regen failed", ws[w].key))
    /\ UNCHANGED <<proj, invVars, poolVars, histVars, rg, cr, rb, mf, pools>>

\* curr_proj = get_project(pid); the map is taken from the document read.
\* The asset task skips the write when the project is gone; the video task
\* raises on None and logs.
RegenRead(w) ==
    /\ w \in DOMAIN ws /\ ws[w].pc = "read"
    /\ IF proj.exists
       THEN ws' = [ws EXCEPT ![w].pc = "write", ![w].read = proj[RegenMap(ws[w].kind)]]
       ELSE ws' = [ws EXCEPT ![w].pc = "failed"]
    /\ UNCHANGED <<proj, logged, invVars, poolVars, histVars, rg, cr, rb, mf, pools>>

\* The call the writer makes: the map it read with its key replaced, or the
\* progress figure.
WriterKwargs(wr) ==
    CASE wr.kind = "asset" -> [asset_map |-> Put(wr.read, wr.key, wr.val)]
      [] wr.kind = "video" -> [video_map |-> Put(wr.read, wr.key, wr.val)]
      [] OTHER -> [progress |-> wr.val]

StoreWrite(w) ==
    /\ w \in DOMAIN ws /\ ws[w].pc = "write"
    /\ proj' = update_project(proj, WriterKwargs(ws[w]))
    /\ ws' = [ws EXCEPT ![w].pc = "done"]
    /\ UNCHANGED <<logged, invVars, poolVars, histVars, rg, cr, rb, mf, pools>>

\* The project the writers run against: every step before assembly has
\* succeeded once.
WritersBase(manifest) == Staged(6, Files, [present |-> TRUE, assets |-> RosterIds], manifest)

InitWriters ==
    /\ \E manifest \in Manifests :
          /\ manifest.timeline # <<>>
          /\ proj = WritersBase(manifest)
    /\ succeeded = {StepOrder[i] : i \in 1..6}
    /\ Fresh

NextWriters ==
    \/ \E w \in WriterIds, aid \in RosterIds : regenerate_asset_endpoint(w, aid)
    \/ \E w \in WriterIds, sid \in SegIds : regenerate_video_endpoint(w, sid)
    \/ \E w \in WriterIds, i \in 1..MaxSegs : AssembleProgress(w, i)
    \/ \E w \in WriterIds : RegenTask(w)
    \/ \E w \in WriterIds : RegenRead(w)
    \/ \E w \in WriterIds : StoreWrite(w)
    \/ delete_project

SpecWriters == InitWriters /\ [][NextWriters]_vars

\* C21: when an update of progress and an update of video_map, and no other,
\* have been applied to the same project, in whichever order, the document holds the
\* progress of the one and the video_map of the other, and every other field
\* is what it was.
C21_FieldMerge ==
    \A a, b \in DOMAIN ws :
        ( /\ ws[a].kind = "progress" /\ ws[a].pc = "done"
          /\ ws[b].kind = "video" /\ ws[b].pc = "done"
          /\ \A c \in DOMAIN ws : ws[c].pc = "done" => c \in {a, b}
          /\ proj.exists ) =>
            /\ proj.progress = ws[a].val
            /\ proj.video_map = Put(ws[b].read, ws[b].key, ws[b].val)
            /\ proj.manifest.present
            /\ \A f \in DOMAIN proj \ {"progress", "video_map"} :
                  proj[f] = WritersBase(proj.manifest)[f]

C21_Witness ==
    /\ proj.exists
    /\ 1 \in DOMAIN ws /\ 2 \in DOMAIN ws
    /\ ws[1].kind = "progress" /\ ws[1].pc = "done" /\ ws[1].val = 50
    /\ ws[2].kind = "video" /\ ws[2].pc = "done"
    /\ proj.progress = 50
    /\ Get(proj.video_map, ws[2].key) = "regen"

\* C22: when two asset regeneration tasks that replace different keys of
\* asset_map have both written, both keys hold the values the tasks wrote.
C22_KeyedMerge ==
    \A a, b \in DOMAIN ws :
        ( /\ a # b /\ ws[a].kind = "asset" /\ ws[b].kind = "asset"
          /\ ws[a].key # ws[b].key
          /\ ws[a].pc = "done" /\ ws[b].pc = "done"
          /\ proj.exists ) =>
            /\ Get(proj.asset_map, ws[a].key) = ws[a].val
            /\ Get(proj.asset_map, ws[b].key) = ws[b].val

\* C23: once delete_project has removed the project, the record is never
\* there again, and a step in flight still runs to its end: its updates and
\* log lines are dropped without an exception of their own.
C23_DeletedStaysDeleted ==
    /\ [](~proj.exists => [](~proj.exists))
    /\ [](( ~proj.exists /\ pc # "idle" ) => <>(pc = "done"))

C23_Witness ==
    /\ ~proj.exists
    /\ pc = "done" /\ step = "assets"
    /\ snap.exists
    /\ wrote = <<"running", "waiting_anchors">>
    /\ Log("complete", "assets") \notin logged

\* C24: while the asset step runs again on a project that already holds an
\* asset_map, every entry an earlier invocation persisted is still in the
\* persisted map, with its old value unless this invocation produced a new
\* one for the key.
C24_PriorEntriesKept ==
    (step = "assets" /\ pc \in {"loop", "done"} /\ snap.exists /\ proj.exists) =>
        \A k \in DOMAIN snap.asset_map :
            /\ k \in DOMAIN proj.asset_map
            /\ \/ proj.asset_map[k] = snap.asset_map[k]
               \/ (Settled(<<"asset", k>>) /\ proj.asset_map[k] = futs[<<"asset", k>>].res)

\* ------------------------------------- the manifest: planning and editing
\* Segments the architect returns, segments of a replacement the critic
\* supplies.
MaxRawSegs == 1
MaxPlanSegs == 2

\* duration: Literal["4", "6", "8"]
Durations == {4, 6, 8}

\* A segment as the response schema allows it: narration and dialogue say
\* whether the field is non-empty.
PlanSegments ==
    [mode : Modes, duration : Durations, narration : BOOLEAN, dialogue : BOOLEAN]

RECURSIVE SumDurations(_)
SumDurations(tl) ==
    IF tl = <<>> THEN 0 ELSE tl[1].duration + SumDurations(Tail(tl))

\* estimated_total_duration is whatever the model answered: the sum, or not.
Estimates(tl) == {SumDurations(tl), SumDurations(tl) + 4}

PlanManifests(n) ==
    UNION {{[timeline |-> tl, estimated_total_duration |-> e] : e \in Estimates(tl)} :
              tl \in UNION {[1..k -> PlanSegments] : k \in 0..n}}

\* A replacement returned with the estimate the critic gave.
KeepEstimate(improved) == improved

\* improved["estimated_total_duration"] = sum(int(s.get("duration", 0)) ...)
Recomputed(improved) ==
    [improved EXCEPT !.estimated_total_duration = SumDurations(improved.timeline)]

\* task_critic once the evaluation has answered: improved is <<>> when
\* improved_manifest is missing or null.
task_critic(manifest, critique) ==
    IF ~critique.approved /\ critique.improved # <<>>
    THEN Recomputed(critique.improved[1])
    ELSE manifest

\* What the evaluation answers: approved or not, with or without a
\* replacement manifest.
Critiques ==
    [approved : BOOLEAN,
     improved : {<<>>} \cup {<<m>> : m \in PlanManifests(MaxPlanSegs)}]

\* step_planning up to the return of task_architect; three failed calls
\* leave the step through its except clause.
PlanningArchitect ==
    /\ mf.pc = "idle"
    /\ \/ \E raw \in PlanManifests(MaxRawSegs) : mf' = [pc |-> "planned", raw |-> raw]
       \/ mf' = [pc |-> "failed"]
    /\ UNCHANGED <<proj, logged, invVars, poolVars, histVars, rg, cr, rb, ws, pools>>

\* manifest = task_critic(pid, report, raw_manifest)
PlanningCritic ==
    /\ mf.pc = "planned"
    /\ \/ \E critique \in Critiques :
             mf' = [pc |-> "critiqued", raw |-> mf.raw, critique |-> critique,
                    manifest |-> task_critic(mf.raw, critique)]
       \/ mf' = [pc |-> "failed"]
    /\ UNCHANGED <<proj, logged, invVars, poolVars, histVars, rg, cr, rb, ws, pools>>

\* update_project(pid, manifest=manifest, status="waiting_assets", ...)
PlanningPersist ==
    /\ mf.pc = "critiqued"
    /\ mf' = [pc |-> "persisted", manifest |-> mf.manifest, edited |-> FALSE]
    /\ UNCHANGED <<proj, logged, invVars, poolVars, histVars, rg, cr, rb, ws, pools>>

\* The request body of a segment edit: any subset of the segment's fields.
SegData ==
    {[f \in S |-> seg[f]] : seg \in PlanSegments,
                            S \in SUBSET {"mode", "duration", "narration", "dialogue"}}

\* update_segment_endpoint: dict.update on the segment, then the manifest is
\* written back as it stands.
update_segment_endpoint(i, seg_data) ==
    /\ mf.pc = "persisted"
    /\ i \in 1..Len(mf.manifest.timeline)
    /\ mf' = [pc |-> "persisted",
              manifest |-> [mf.manifest EXCEPT !.timeline[i] = seg_data @@ @],
              edited |-> TRUE]
    /\ UNCHANGED <<proj, logged, invVars, poolVars, histVars, rg, cr, rb, ws, pools>>

InitManifest ==
    /\ proj = Staged(2, Files, FullReport, NoManifest)
    /\ succeeded = {StepOrder[i] : i \in 1..2}
    /\ Fresh

NextManifest ==
    \/ PlanningArchitect
    \/ PlanningCritic
    \/ PlanningPersist
    \/ \E i \in 1..MaxPlanSegs, seg_data \in SegData : update_segment_endpoint(i, seg_data)

SpecManifest == InitManifest /\ [][NextManifest]_vars

\* C25: task_critic returns the replacement, its estimated_total_duration
\* set to the sum of the replacement's segment durations, exactly when the
\* evaluation did not approve and supplied a replacement; otherwise it
\* returns the manifest it was given, unchanged; the one evaluation decides.
C25_OneShotCritique ==
    mf.pc = "critiqued" =>
        IF ~mf.critique.approved /\ mf.critique.improved # <<>>
        THEN LET tl == mf.critique.improved[1].timeline
                 Total[n \in 0..Len(tl)] == IF n = 0 THEN 0 ELSE Total[n - 1] + tl[n].duration
             IN  /\ mf.manifest.timeline = tl
                 /\ mf.manifest.estimated_total_duration = Total[Len(tl)]
        ELSE mf.manifest = mf.raw

C25_Witness ==
    /\ mf.pc = "critiqued"
    /\ ~mf.critique.approved /\ mf.critique.improved # <<>>
    /\ Len(mf.manifest.timeline) = 2
    /\ mf.critique.improved[1].estimated_total_duration # mf.manifest.estimated_total_duration
    /\ mf.manifest.estimated_total_duration = 14

\* C26: the estimated_total_duration of the persisted manifest is the sum of
\* the durations of its segments, after planning and after every edit.
C26_TotalIsSum ==
    mf.pc = "persisted" =>
        LET tl == mf.manifest.timeline
            Total[n \in 0..Len(tl)] == IF n = 0 THEN 0 ELSE Total[n - 1] + tl[n].duration
        IN  mf.manifest.estimated_total_duration = Total[Len(tl)]

\* C27: every fi segment of the persisted manifest has duration 8.
C27_InterpolatedIsEight ==
    mf.pc = "persisted" =>
        \A i \in 1..Len(mf.manifest.timeline) :
            mf.manifest.timeline[i].mode = "fi" => mf.manifest.timeline[i].duration = 8

\* C28: the manifest the planning step persisted has no segment with both a
\* narration and a dialogue.
C28_NarrationOrDialogue ==
    (mf.pc = "persisted" /\ ~mf.edited) =>
        \A i \in 1..Len(mf.manifest.timeline) :
            ~(mf.manifest.timeline[i].narration /\ mf.manifest.timeline[i].dialogue)

\* C29: one invocation of the anchor step submits exactly one start task per
\* timeline segment, and an end task for a segment exactly when the segment
\* is fi and its start task has been handled as a success, never twice and
\* never for an i2v segment; so at most (segments + fi segments) tasks.
C29_AnchorFanOut ==
    (step = "anchors" /\ pc \in {"loop", "handle", "done"} /\ snap.exists /\ err = None) =>
        LET tl == snap.manifest.timeline
            n == Len(tl)
            sub == lmaps.submitted
            fi == {i \in 1..n : tl[i].mode = "fi"}
        IN  /\ Len(sub) >= n
            /\ \A i \in 1..n : sub[i] = <<"start", tl[i].id>>
            /\ \A j \in (n + 1)..Len(sub) :
                  /\ sub[j][1] = "end"
                  /\ \E i \in fi : tl[i].id = sub[j][2]
                  /\ futs[<<"start", sub[j][2]>>].st = "ok"
                  /\ <<"start", sub[j][2]>> \notin pending
            /\ \A j, k \in 1..Len(sub) : j < k => sub[j] # sub[k]
            /\ \A i \in fi :
                  (futs[<<"start", tl[i].id>>].st = "ok" /\ <<"start", tl[i].id>> \notin pending) =>
                      \E j \in (n + 1)..Len(sub) : sub[j] = <<"end", tl[i].id>>
            /\ DOMAIN futs = {sub[j] : j \in 1..Len(sub)}
            /\ Len(sub) <= n + Cardinality(fi)

C29_Witness ==
    /\ step = "anchors" /\ pc = "done" /\ snap.exists /\ err = None
    /\ Len(snap.manifest.timeline) = 2
    /\ snap.manifest.timeline[1].mode = "fi" /\ snap.manifest.timeline[2].mode = "i2v"
    /\ lmaps.submitted = <<<<"start", "s1">>, <<"start", "s2">>, <<"end", "s1">>>>
    /\ futs[<<"start", "s2">>].st = "ok"

\* C30: in the anchor step the persisted anchor_map holds, under
\* <segment>_start or <segment>_end, the artifact of every task already
\* handled as a success, and the step has written a key only for a task that
\* succeeded: every other key holds what it held when the step began.
C30_AnchorsPersistedAtOnce ==
    (step = "anchors" /\ pc \in {"loop", "handle", "done"} /\ snap.exists /\ proj.exists) =>
        /\ \A t \in DOMAIN futs :
              (futs[t].st = "ok" /\ t \notin pending) =>
                  Get(proj.anchor_map, <<t[2], t[1]>>) = futs[t].res
        /\ \A s \in SegIds, slot \in {"start", "end"} :
              \/ Get(proj.anchor_map, <<s, slot>>) = Get(snap.anchor_map, <<s, slot>>)
              \/ /\ <<slot, s>> \in DOMAIN futs
                 /\ futs[<<slot, s>>].st = "ok"
                 /\ <<slot, s>> \notin pending
                 /\ Get(proj.anchor_map, <<s, slot>>) = futs[<<slot, s>>].res

C30_Witness ==
    /\ step = "anchors" /\ pc = "handle" /\ snap.exists /\ proj.exists
    /\ done # {}
    /\ <<"end", "s1">> \in DOMAIN futs
    /\ futs[<<"end", "s1">>].st = "ok" /\ <<"end", "s1">> \notin pending
    /\ Get(proj.anchor_map, <<"s1", "end">>) = "step"
    /\ Get(snap.anchor_map, <<"s1", "end">>) = None
    /\ \E t \in done : futs[t].st = "fail"

C32_Verdict ==
    LET v == cr'.critique IN
    /\ v.verdict = "approve" =>
          /\ cr'.pc = "ret" /\ cr'.result = cr.tmp /\ cr'.uploaded = cr.tmp
          /\ cr'.gens = cr.gens /\ cr'.warnings = cr.warnings
    /\ (v.verdict = "reject" /\ cr.attempt < 2) =>
          /\ cr'.pc = "gen" /\ cr'.attempt = cr.attempt + 1
          /\ cr'.result = 0 /\ cr'.uploaded = 0
          /\ cr'.current_prompt = IF v.improved_prompt = "revised"
                                  THEN "revised" ELSE cr.current_prompt
    /\ cr'.warnings # cr.warnings => (v.verdict = "reject" /\ cr.attempt = 2)

C32_CritiqueLoop ==
    [][/\ (cr.pc = "eval" /\ cr' # cr) => C32_Verdict
       /\ cr.pc = "ret" => cr' = cr
       /\ (cr.pc = "gen" /\ cr' # cr) => cr'.warnings = cr.warnings]_vars

\* ------------------------------------------- the generation tasks' retries
\* The tasks that wrap a 3-attempt loop around their service call, each
\* under @retry_backoff().
GenTasks == {"task_extract_final", "task_gen_final", "task_run_veo"}

\* "for attempt in range(3)" of task_extract_final and task_gen_final.
ASSET_ATTEMPTS == 3

Attempts(task) == IF task = "task_run_veo" THEN VEO_ATTEMPTS ELSE ASSET_ATTEMPTS

\* What one service call gives: a result, a response without one, or an
\* exception (an upload failing inside the try block included).
ServiceOutcomes == {"image", "empty"} \cup ErrorKinds

\* The wrapper's first call of the task.
GenerationCall ==
    /\ rb.pc = "idle"
    /\ \E task \in GenTasks :
          rb' = [pc |-> "enter", task |-> task, i |-> 0, attempt |-> 0, calls |-> 0,
                 last |-> "none", last_error |-> None, raised |-> None, result |-> None]
    /\ UNCHANGED <<proj, logged, invVars, poolVars, histVars, rg, cr, ws, mf, pools>>

\* An exception leaves the task: the wrapper re-raises it on pass number
\* retries and otherwise calls the task again, which starts its loop anew.
Reraise(c, e) ==
    IF c.i = RETRIES
    THEN [c EXCEPT !.pc = "raised", !.raised = e]
    ELSE [c EXCEPT !.pc = "enter", !.i = c.i + 1, !.attempt = 0, !.last_error = None]

\* The statements before the loop: task_gen_final only formats its prompt;
\* task_extract_final and task_run_veo fetch their source image
\* (ensure_local), which can raise.
GenerationEnter ==
    /\ rb.pc = "enter"
    /\ \E prepared \in BOOLEAN :
          rb' = IF prepared \/ rb.task = "task_gen_final"
                THEN [rb EXCEPT !.pc = "loop"]
                ELSE Reraise(rb, "DownloadError")
    /\ UNCHANGED <<proj, logged, invVars, poolVars, histVars, rg, cr, ws, mf, pools>>

\* One pass of the attempt loop.  The asset tasks keep an exception in
\* last_error (a response without an image leaves it as it was) and raise
\* a new RuntimeError that quotes it after the last pass; task_run_veo
\* drops the exception and goes on to its fallback.
GenerationAttempt ==
    /\ rb.pc = "loop"
    /\ \E o \in ServiceOutcomes :
          LET c == [rb EXCEPT !.calls = rb.calls + 1,
                              !.last = o,
                              !.last_error = IF o \in ErrorKinds /\ rb.task # "task_run_veo"
                                             THEN o ELSE rb.last_error] IN
          rb' = IF o = "image" THEN [c EXCEPT !.pc = "ret", !.result = "generated"]
                ELSE IF c.attempt + 1 < Attempts(c.task) THEN [c EXCEPT !.attempt = c.attempt + 1]
                ELSE IF c.task = "task_run_veo" THEN [c EXCEPT !.pc = "fallback"]
                ELSE Reraise(c, "RuntimeError")
    /\ UNCHANGED <<proj, logged, invVars, poolVars, histVars, rg, cr, ws, mf, pools>>

\* task_run_veo after three attempts without a video: the looped still
\* (ffmpeg with check=True, then the upload), which returns or raises.
GenerationFallback ==
    /\ rb.pc = "fallback"
    /\ \E synth \in BOOLEAN :
          rb' = IF synth THEN [rb EXCEPT !.pc = "ret", !.result = "fallback"]
                ELSE Reraise(rb, "CalledProcessError")
    /\ UNCHANGED <<proj, logged, invVars, poolVars, histVars, rg, cr, ws, mf, pools>>

NextGeneration ==
    \/ GenerationCall
    \/ GenerationEnter
    \/ GenerationAttempt
    \/ GenerationFallback

SpecGeneration == InitRetry /\ [][NextGeneration]_vars

\* C33: one invocation of a generation task issues at most 3 service calls
\* before it fails (or, for video, falls back), and when it fails the
\* caller observes the original error of the last attempt.
C33_ThreeCallsThenOriginalError ==
    rb.pc # "idle" =>
        /\ rb.calls <= 3
        /\ rb.pc = "fallback" => (rb.task = "task_run_veo" /\ rb.calls = 3)
        /\ (rb.pc = "raised" /\ rb.task # "task_run_veo" /\ rb.raised # "DownloadError") =>
              rb.raised = rb.last

\* ------------------------------------------------ progress and settled work
\* C34: every progress update counts only settled work: in the asset,
\* anchor, production and assembly loops the value for the k-th of N items
\* is written after that item has finished, so progress 100 is never
\* persisted while an item of the step is still unprocessed.
C34_PoolProgressSettled ==
    (step \in {"assets", "anchors", "production"} /\ pc \in {"loop", "handle"}
        /\ proj.exists /\ proj.progress = 100) => pending = {}

C34_ProgressCountsSettledWork ==
    /\ C34_PoolProgressSettled
    /\ (step = "assembly" /\ pc = "segment" /\ proj.exists) => proj.progress < 100

\* ------------------------------------------------- the executors, by count
\* Most tasks one step hands to one executor.
PoolTasks == 17

\* Every executor as wide as the asset executor.
AssetsWidthForAll(pool) == WORKER_THREADS_ASSETS

\* ThreadPoolExecutor(WORKER_THREADS_VEO), ThreadPoolExecutor(max_workers=16)
\* and ThreadPoolExecutor(WORKER_THREADS_ASSETS): the executors at the widths
\* the program gives them.
ExecutorWidth(pool) ==
    CASE pool = "veo" -> WORKER_THREADS_VEO
      [] pool = "tts" -> TTS_MAX_WORKERS
      [] OTHER -> WORKER_THREADS_ASSETS

Executors == {"veo", "tts", "assets"}

Counts(queued) == [queued |-> queued, running |-> 0, settled |-> 0]

\* The submissions of a step: one video and one speech task per segment in
\* production, one task per asset in the asset step, one start task per
\* segment in the anchor step.
PoolsSubmit ==
    /\ pools = NoPools
    /\ \E s \in {"assets", "anchors", "production"}, n \in 1..PoolTasks :
          pools' = [step |-> s, n |-> n, ends |-> 0, probe |-> "none",
                    veo |-> Counts(IF s = "production" THEN n ELSE 0),
                    tts |-> Counts(IF s = "production" THEN n ELSE 0),
                    assets |-> Counts(IF s = "production" THEN 0 ELSE n)]
    /\ UNCHANGED <<proj, logged, invVars, poolVars, histVars, rg, cr, rb, ws, mf>>

\* A free worker of an executor takes a task from that executor's queue.
\* probe notes a speech task that starts while every video worker is busy.
PoolsStart(pool) ==
    /\ pools # NoPools
    /\ pools[pool].queued > 0
    /\ pools[pool].running < ExecutorWidth(pool)
    /\ pools' = [pools EXCEPT ![pool].queued = @ - 1,
                              ![pool].running = @ + 1,
                              !.probe = IF /\ pool = "tts" /\ pools.probe = "none"
                                           /\ pools.veo.running = WORKER_THREADS_VEO
                                        THEN "started" ELSE @]
    /\ UNCHANGED <<proj, logged, invVars, poolVars, histVars, rg, cr, rb, ws, mf>>

\* A running task returns or raises; its worker is free again.
PoolsFinish(pool) ==
    /\ pools # NoPools
    /\ pools[pool].running > 0
    /\ pools' = [pools EXCEPT ![pool].running = @ - 1,
                              ![pool].settled = @ + 1,
                              !.probe = IF /\ pool = "tts" /\ pools.probe = "started"
                                           /\ pools.veo.running = WORKER_THREADS_VEO
                                        THEN "finished"
                                        ELSE IF pool = "veo" /\ pools.probe = "started"
                                        THEN "none" ELSE @]
    /\ UNCHANGED <<proj, logged, invVars, poolVars, histVars, rg, cr, rb, ws, mf>>

\* The anchor step submits an end task to the same executor when a start
\* task has settled, at most one per segment.
PoolsSubmitEnd ==
    /\ pools # NoPools
    /\ pools.step = "anchors"
    /\ pools.ends < pools.n
    /\ pools.ends < pools.assets.settled
    /\ pools' = [pools EXCEPT !.ends = @ + 1, !.assets.queued = @ + 1]
    /\ UNCHANGED <<proj, logged, invVars, poolVars, histVars, rg, cr, rb, ws, mf>>

NextPools ==
    \/ PoolsSubmit
    \/ \E pool \in Executors : PoolsStart(pool)
    \/ \E pool \in Executors : PoolsFinish(pool)
    \/ PoolsSubmitEnd

SpecPools == InitRetry /\ [][NextPools]_vars

\* C35: never more than 4 video tasks, 16 speech tasks or 8 asset/anchor
\* tasks run at once, and the executors are independent: a queued speech
\* task is held back only by the speech executor's own width.  (That a
\* speech task starts and finishes while all video workers are busy is the
\* witness.)
C35_PoolsBounded ==
    pools # NoPools =>
        /\ pools.veo.running <= 4
        /\ pools.tts.running <= 16
        /\ pools.assets.running <= 8
        /\ \A pool \in Executors :
              pools[pool].queued + pools[pool].running + pools[pool].settled
                  = (IF pools.step = "production" THEN (IF pool = "assets" THEN 0 ELSE pools.n)
                     ELSE IF pool = "assets" THEN pools.n + pools.ends ELSE 0)
        /\ (pools.tts.queued > 0 /\ pools.tts.running < 16) => ENABLED PoolsStart("tts")

C35_Witness ==
    /\ pools # NoPools
    /\ pools.step = "production"
    /\ pools.veo.running = 4 /\ pools.veo.queued > 0 /\ pools.veo.settled = 0
    /\ pools.probe = "finished"
    /\ pools.tts.running = 16 /\ pools.tts.queued = 0 /\ pools.tts.settled = 1

\* -------------------------------------------------- the narration mix
\* Longest clip or narration measured, in seconds.
MaxDuration == 12

\* volume=0.3 and volume=1.5 of the filter graph, in hundredths.
BG_VOLUME == 30
FG_VOLUME == 150

Max(a, b) == IF a > b THEN a ELSE b

\* A tempo that follows the ratio wherever it goes.
TempoUnclamped(dur_a, dur_v) == IF dur_v > 0 THEN (dur_a * 100) \div dur_v ELSE 100

\* "tempo = min(2.0, max(1.0, dur_a / dur_v)) if dur_v > 0 else 1.0", in
\* hundredths; the quotient is carried to two decimals.
Tempo(dur_a, dur_v) ==
    IF dur_v > 0 THEN Min(200, Max(100, (dur_a * 100) \div dur_v)) ELSE 100

\* The audio part of the filter graph of one segment: with a narration the
\* clip's own audio at BG_VOLUME under the narration at FG_VOLUME, retimed;
\* without one the clip's own audio as it is.  get_media_duration gives 0
\* when the probe fails.
FilterChain(narrated, dur_v, dur_a) ==
    IF narrated
    THEN [narrated |-> TRUE, dur_v |-> dur_v, dur_a |-> dur_a,
          atempo |-> Tempo(dur_a, dur_v), bg |-> BG_VOLUME, fg |-> FG_VOLUME]
    ELSE [narrated |-> FALSE, dur_v |-> dur_v, dur_a |-> 0,
          atempo |-> 100, bg |-> 100, fg |-> 0]

\* The filter graph is built for a fetched segment.
BuildFilter ==
    /\ lmaps.mix = <<>>
    /\ \E narrated \in BOOLEAN, dur_v \in 0..MaxDuration, dur_a \in 0..MaxDuration :
          lmaps' = [lmaps EXCEPT !.mix = <<FilterChain(narrated, dur_v, dur_a)>>]
    /\ UNCHANGED <<proj, logged, invVars, futs, pending, done, completed_count, histVars,
                   rg, cr, rb, ws, mf, pools>>

NextMix ==
    \/ BuildFilter

SpecMix == InitRetry /\ [][NextMix]_vars

\* C36: the narration tempo is the ratio of narration to clip duration
\* clamped to [1.0, 2.0], and 1.0 when the clip duration is 0; no division
\* by zero happens; a 5 s clip with an 8 s narration gives 1.6; the clip's
\* own audio is mixed at gain 0.3 and the narration at gain 1.5.
C36_TempoClamped ==
    \A k \in 1..Len(lmaps.mix) :
        LET f == lmaps.mix[k] IN
        f.narrated =>
            /\ f.atempo >= 100 /\ f.atempo <= 200
            /\ f.dur_v = 0 => f.atempo = 100
            /\ (f.dur_v > 0 /\ f.dur_a <= f.dur_v) => f.atempo = 100
            /\ (f.dur_v > 0 /\ f.dur_a >= 2 * f.dur_v) => f.atempo = 200
            /\ (f.dur_v > 0 /\ f.dur_a > f.dur_v /\ f.dur_a < 2 * f.dur_v) =>
                  /\ f.atempo * f.dur_v <= f.dur_a * 100
                  /\ f.dur_a * 100 < (f.atempo + 1) * f.dur_v
            /\ (f.dur_v = 5 /\ f.dur_a = 8) => f.atempo = 160
            /\ f.bg = 30 /\ f.fg = 150

C36_Witness ==
    /\ Len(lmaps.mix) = 1
    /\ lmaps.mix[1].narrated /\ lmaps.mix[1].dur_v = 5 /\ lmaps.mix[1].dur_a = 8
    /\ lmaps.mix[1].atempo = 160

C38_CompletedWrite ==
    (Len(wrote') = Len(wrote) + 1 /\ wrote'[Len(wrote')] = "completed") =>
        /\ step = "assembly"
        /\ lmaps.clips # <<>>
        /\ proj.exists =>
              /\ proj'.status = "completed"
              /\ proj'.progress = 100
              /\ proj'.result = lmaps.clips

C38_NoArtifact ==
    (step = "assembly" /\ pc = "done" /\ err = None /\ lmaps.clips = <<>>) =>
        /\ wrote = <<"running", "failed">>
        /\ proj.exists => (proj.status = "failed" /\ proj.error = "Assembly failed")

C38_CompletedOnlyWithArtifact ==
    /\ [][C38_CompletedWrite]_vars
    /\ []C38_NoArtifact
    /\ []((step = "assembly" /\ lmaps.clips = <<>>) => (wrote = <<>> \/ wrote[Len(wrote)] # "completed"))

C38_Witness ==
    /\ step = "assembly" /\ pc = "done" /\ proj.exists
    /\ wrote = <<"running", "completed">>
    /\ proj.status = "completed" /\ proj.progress = 100 /\ proj.result = <<"s1">>
    /\ lmaps.clips = <<"s1">>

\* ------------------------------------------------------ the failing write
\* C39: the write of a failing step touches only status and error, plus one
\* log line: asset_map, anchor_map, video_map, audio_map, report, manifest
\* and progress, and every other field, keep the values they had.
C39_HandlerWrite ==
    (pc = "raised" /\ pc' = "done") =>
        /\ proj'.exists = proj.exists
        /\ proj.exists =>
              /\ DOMAIN proj' = DOMAIN proj \cup {"error"}
              /\ \A f \in DOMAIN proj \ {"status", "error"} : proj'[f] = proj[f]
              /\ proj'.status = "failed" /\ proj'.error = err
              /\ logged' = logged \cup {Log("ERROR", step)}
        /\ ~proj.exists => logged' = logged

C39_FailingWriteFrame == [][C39_HandlerWrite]_vars

C39_Witness ==
    /\ step = "assembly" /\ pc = "done" /\ err = "download failed: video s1"
    /\ proj.exists /\ proj.status = "failed" /\ proj.error = err
    /\ proj.progress = 100
    /\ proj.video_map = [s1 |-> "prior"]
    /\ proj.manifest.present /\ proj.report.present

\* ------------------------------------------------- steps whose tasks fail
\* C40: the ingest, asset, anchor and production steps end in their success
\* status even when every pooled task of the invocation failed, provided
\* the inputs they read exist; all analyses failing leaves an empty
\* potential_assets; "failed" is written only for an exception that
\* reached the step's own handler.
C40_TaskFailuresTolerated ==
    (pc = "done" /\ step \in {"ingest", "assets", "anchors", "production"}) =>
        /\ ( /\ DOMAIN futs # {}
             /\ \A t \in DOMAIN futs : futs[t].st = "fail"
             /\ step = "production" =>
                   /\ snap.report.present
                   /\ \A i \in 1..Len(snap.manifest.timeline) :
                         <<snap.manifest.timeline[i].id, "start">> \in DOMAIN snap.anchor_map ) =>
              /\ err = None
              /\ wrote = <<"running", SuccessStatus(step)>>
              /\ proj.exists =>
                    /\ proj.status = SuccessStatus(step)
                    /\ step = "ingest" => proj.potential_assets = {}
        /\ wrote[Len(wrote)] = "failed" => err # None

C40_Witness ==
    /\ pc = "done" /\ step = "production" /\ err = None
    /\ DOMAIN futs = {<<"video", "s1">>, <<"audio", "s1">>}
    /\ \A t \in DOMAIN futs : futs[t].st = "fail"
    /\ proj.exists /\ proj.status = "waiting_assembly"
====
